---- MODULE Spec2Model ----
(***************************************************************************)
(* Verification model of the bank-statement extraction pipeline            *)
(* (Naresh-19/Financial-Statement-Extractor).                              *)
(*                                                                         *)
(* Texts exchanged with the AI back ends are modelled as sequences of      *)
(* lexical tokens.  A token is a TLA+ string standing for one lexeme of    *)
(* the text: a bracket, a brace, a comma, a scalar literal, a whole flat   *)
(* object literal, a code fence, a blank, a piece of prose.  The Python    *)
(* string functions and regular expressions of the source are translated   *)
(* to operators over such token sequences, and json.loads to a recursive   *)
(* descent parser over them.                                               *)
(***************************************************************************)
EXTENDS Integers, Sequences, FiniteSets, TLC

VARIABLES
    sanIn,        \* clean_and_fix_json: the raw text handed to the sanitizer
    sanOutCore,   \* result of ai_core.clean_and_fix_json
    sanOutFn,     \* result of ai_functions.clean_and_fix_json
    sanPc,        \* "start" before the call, "done" after it
    recRecords,   \* reconciliation: llm_transactions, the extracted records
    recRefEmpty,  \* reconciliation: camelot_df.empty
    recResp,      \* reconciliation: outcome of the AI call of this run
    recCore,      \* outcome of ai_core.refine_with_camelot_reference
    recSimple,    \* outcome of ai_functions.refine_with_camelot_reference_simple
    recPc,        \* "start" before the call, "done" after it
    aiResp,       \* AI wrappers: outcome of the Llama call
    aiCls,        \* outcome of is_transaction_table on aiResp
    aiSchema,     \* result of ai_core.detect_schema_from_first_table on aiResp
    aiSchemaFn,   \* result of ai_functions.detect_schema_from_first_table
    aiPc,         \* "start", then "classified" or "detected"
    pipeN,                          \* process_pdf_extraction: len(cropped_image_paths)
    pipeIdx,                        \* number of table images processed so far
    first_transaction_table_found,  \* local of process_pdf_extraction
    reordered_schema,               \* local of process_pdf_extraction (None: <<>>)
    extracted_json_texts,           \* local of process_pdf_extraction
    pipeLog,                        \* the AI calls made so far, in order
    combined,                       \* outcome of combine_json_texts_to_dataframe
    pipePc,                         \* "loop", "done" or "failed"
    mIn,          \* merge_overlapping_tables: the tables Camelot returned
    mOut,         \* merged_tables of the call on mIn
    mTwice,       \* merged_tables of a second call, on mOut
    mPermOut,     \* merged_tables of the call on a permutation of mIn
    mPc,          \* "start", "merged", then "again" or "permuted"
    disk,         \* document run: the temporary artifacts in temp/<pdf_stem>/
    keep_temp,    \* main: the Keep Temp Files checkbox
    locRedaction, \* outcome of PDFProcessor.redact_pdf in this run
    locExt,       \* outcome of extract_all_tables in this run
    runOutcome,   \* "pending", "no_tables", "success" or "failed"
    locPc,        \* "start", "tables", "main", "ended"
    rqKind,       \* AI request: "groq", "gemini" or "ai_core"
    rqLog,        \* the attempts and sleeps of the request so far, in order
    rqResult,     \* "pending", "content", "None", "fallback" or "raised"
    combTexts,    \* json_texts handed to combine_json_texts_to_dataframe
    combOut,      \* what the call returned
    combUtils,    \* what the legacy utils.combine_json_texts_to_dataframe returned
    combPc,       \* "start", "done"
    redPages,     \* redact_pdf: per page, whether a header line was found and the y of its block
    redIdx,       \* number of pages the loop has gone through
    modified,     \* local of redact_pdf
    redRects,     \* the rectangles drawn so far: page and height
    redSaved,     \* whether doc.save(output_path) was called
    redPc,        \* "loop", "done"
    ovPair,       \* boxes_overlap: the two boxes of the call
    ovCall,       \* what the call did: whether it divided, by what, and what it returned
    ovPc,         \* "start", "done"
    ptIn,         \* merge_overlapping_tables: the tables of the call
    ptOut,        \* merged_tables
    ptGroups,     \* per merged table, the positions in ptIn of its overlapping list
    ptPc,         \* "start", "done"
    ccVariant,    \* "process_all_images" or "process_all_images_with_preview"
    image_paths,  \* the pages: whether the image file exists and what the model call gives
    ccIdx,        \* number of pages the loop has gone through
    ccSent,       \* the pages convert_images_to_markdown was called for, in call order
    all_markdown, \* the pages whose markdown was appended
    ccResult,     \* what the method returned
    ccPc,         \* "loop", "after", "done"
    state,        \* process_pdf_file: the ProcessingState of the session
    pfEnv,        \* what each stage of the run gives for the uploaded file
    pfReturned,   \* "pending", "True", "False"
    pfPc,         \* "main", "write", "redact", "text", "images", "markdown", "gemini", "store", "returned"
    hdTables,     \* extract_transactions: the tables camelot.read_pdf returned
    hdIdx,        \* number of tables the loop has gone through
    extractor,    \* the BankStatementExtractor: its headers, its flag and its transactions
    hdPc          \* "loop", "done"

sanVars == <<sanIn, sanOutCore, sanOutFn, sanPc>>

recVars == <<recRecords, recRefEmpty, recResp, recCore, recSimple, recPc>>

aiVars == <<aiResp, aiCls, aiSchema, aiSchemaFn, aiPc>>

pipeVars == <<pipeN, pipeIdx, first_transaction_table_found, reordered_schema,
              extracted_json_texts, pipeLog, combined, pipePc>>

mergeVars == <<mIn, mOut, mTwice, mPermOut, mPc>>

locVars == <<disk, keep_temp, locRedaction, locExt, runOutcome, locPc>>

rqVars == <<rqKind, rqLog, rqResult>>

combVars == <<combTexts, combOut, combUtils, combPc>>

\* variable groups of the later specifications
redVars == <<redPages, redIdx, modified, redRects, redSaved, redPc>>

ovVars == <<ovPair, ovCall, ovPc>>

ptVars == <<ptIn, ptOut, ptGroups, ptPc>>

ccVars == <<ccVariant, image_paths, ccIdx, ccSent, all_markdown, ccResult, ccPc>>

pfVars == <<state, pfEnv, pfReturned, pfPc>>

hdVars == <<hdTables, hdIdx, extractor, hdPc>>

lateVars == <<redVars, ovVars, ptVars, ccVars, pfVars, hdVars>>

baseVars == <<sanVars, recVars, aiVars, pipeVars, mergeVars, locVars, rqVars, combVars>>

redRest == <<baseVars, ovVars, ptVars, ccVars, pfVars, hdVars>>

ovRest == <<baseVars, redVars, ptVars, ccVars, pfVars, hdVars>>

ptRest == <<baseVars, redVars, ovVars, ccVars, pfVars, hdVars>>

ccRest == <<baseVars, redVars, ovVars, ptVars, pfVars, hdVars>>

pfRest == <<baseVars, redVars, ovVars, ptVars, ccVars, hdVars>>

hdRest == <<baseVars, redVars, ovVars, ptVars, ccVars, pfVars>>

\* end of the variable groups

extVars == <<locVars, rqVars, combVars, lateVars>>

vars == <<sanVars, recVars, aiVars, pipeVars, mergeVars, extVars>>

(***************************************************************************)
(* Bounds                                                                  *)
(***************************************************************************)
SanMaxLen == 4        \* longest raw text given to the sanitizer, in tokens

RecMaxRecords == 2    \* most records handed to the reconciliation stage

ClsMaxLen == 4        \* longest classification answer, in characters

SchMaxLen == 4        \* longest schema-inference answer, in tokens

PipeMaxTables == 3    \* most cropped table images of one document

MergeMaxTables == 3   \* most tables Camelot returns for one document

MergeMaxCoord == 3    \* largest page coordinate of a bounding box

MergeMaxPages == 2    \* pages of the document

LocMaxTables == 2     \* most merged tables extract_all_tables crops

(***************************************************************************)
(* Generic sequence helpers                                                *)
(***************************************************************************)
SeqsUpTo(S, n) == UNION {[1..k -> S] : k \in 0..n}

Drop(s, n) == SubSeq(s, n + 1, Len(s))

Take(s, n) == SubSeq(s, 1, n)

\* index of the first / last occurrence of token t in s, 0 when absent
\* (str.find / str.rfind return -1; 0 plays that role for 1-based sequences)
find(s, t) ==
    IF \E i \in 1..Len(s) : s[i] = t
    THEN CHOOSE i \in 1..Len(s) : s[i] = t /\ \A j \in 1..(i - 1) : s[j] # t
    ELSE 0

rfind(s, t) ==
    IF \E i \in 1..Len(s) : s[i] = t
    THEN CHOOSE i \in 1..Len(s) : s[i] = t /\ \A j \in (i + 1)..Len(s) : s[j] # t
    ELSE 0

(***************************************************************************)
(* Lexemes                                                                 *)
(***************************************************************************)
WS == {" "}                       \* whitespace (blank, newline, tab)

Fence == "<fence>"                \* a code fence, with or without "json"

EscNewline == "<bs>n"            \* the two characters backslash, n

SQString == "<sq>a<sq>"           \* a single-quoted string: not JSON

DQString == "<q>a<q>"             \* the same string, double-quoted: JSON

Number == "5"                     \* a JSON number

Prose == "x"                      \* a word of prose: not JSON

Member == "kv"                    \* one  "key": scalar  member of an object

\* compact transaction records as flat JSON object literals with the keys
\* dt, desc, dr, cr, bal, type (no ref); each literal is one token
ObjOpening == "{dr0,cr0,bal1000}"

ObjCredit == "{dr0,cr500,bal1500}"

ObjDebit == "{dr500,cr0,bal1500}"

TxnLits == {ObjOpening, ObjCredit, ObjDebit}

\* records whose amounts are not JSON numbers: "dr": null; "dr": "1,500.00";
\* "dr": "500" with "type": "w"; and a record that has the "dt" key only
ObjNullDr == "{drnull,cr0,bal1000}"

ObjTextDr == "{dr'1,500.00',cr0,bal1500}"

ObjStrDr == "{dr'500',cr0,bal1500,typew}"

ObjNoAmounts == "{dt}"

OddLits == {ObjNullDr, ObjTextDr, ObjStrDr, ObjNoAmounts}

\* schema templates as flat JSON object literals: the 7 compact fields in
\* the default order, and with cr before dr
SchemaDefaultObj == "{dt,desc,ref,dr,cr,bal,type}"

SchemaReorderedObj == "{dt,desc,ref,cr,dr,bal,type}"

SchemaLits == {SchemaDefaultObj, SchemaReorderedObj}

ObjLits == TxnLits \cup SchemaLits \cup OddLits

\* the Date_Order line of a schema answer: prose, not JSON
DateOrderDesc == "Date_Order: DESCENDING"

\* the sentinel extract_table_with_schema puts in front of the error message
ErrorSentinel == "Error extracting table:"

Scalars == {Number, DQString}

\* the dict json.loads builds from an object literal
RecOf(tok) ==
    CASE tok = ObjOpening ->
            [dt |-> "01-01-2024", desc |-> "OPENING", dr |-> 0, cr |-> 0,
             bal |-> 1000, type |-> "D"]
      [] tok = ObjCredit ->
            [dt |-> "02-01-2024", desc |-> "DEPOSIT", dr |-> 0, cr |-> 500,
             bal |-> 1500, type |-> "D"]
      [] tok = ObjDebit ->
            [dt |-> "02-01-2024", desc |-> "ATM", dr |-> 500, cr |-> 0,
             bal |-> 1500, type |-> "W"]
      [] tok = ObjNullDr ->
            [dt |-> "03-01-2024", desc |-> "FEE", dr |-> "None", cr |-> 0,
             bal |-> 1000, type |-> "W"]
      [] tok = ObjTextDr ->
            [dt |-> "03-01-2024", desc |-> "RENT", dr |-> "1,500.00", cr |-> 0,
             bal |-> 1500, type |-> "W"]
      [] tok = ObjStrDr ->
            [dt |-> "03-01-2024", desc |-> "CARD", dr |-> "500", cr |-> 0,
             bal |-> 1500, type |-> "w"]
      [] tok = ObjNoAmounts ->
            [dt |-> "04-01-2024"]
      [] tok \in SchemaLits ->
            [dt |-> "DD-MM-YYYY", desc |-> "DESCRIPTION", ref |-> "null",
             dr |-> 0, cr |-> 0, bal |-> 0, type |-> "W"]

\* a dict without any of the compact keys (built from "{" Member ... "}")
NoKeys == <<>>

(***************************************************************************)
(* json.loads                                                              *)
(***************************************************************************)
PyList(items) == [t |-> "list", items |-> items]

PyDict(rec) == [t |-> "dict", rec |-> rec]

PyScalar == [t |-> "scalar"]

JSONDecodeError == [t |-> "JSONDecodeError"]

ParseFail == [ok |-> FALSE, next |-> 0, val |-> JSONDecodeError]

ParseOk(n, v) == [ok |-> TRUE, next |-> n, val |-> v]

RECURSIVE ParseValue(_, _), ParseElems(_, _, _), ParseMembers(_, _)
ParseValue(s, i) ==
    IF i > Len(s) THEN ParseFail
    ELSE IF s[i] \in Scalars THEN ParseOk(i + 1, PyScalar)
    ELSE IF s[i] \in ObjLits THEN ParseOk(i + 1, PyDict(RecOf(s[i])))
    ELSE IF s[i] = "[" THEN
        IF i + 1 <= Len(s) /\ s[i + 1] = "]" THEN ParseOk(i + 2, PyList(<<>>))
        ELSE ParseElems(s, i + 1, <<>>)
    ELSE IF s[i] = "{" THEN
        IF i + 1 <= Len(s) /\ s[i + 1] = "}" THEN ParseOk(i + 2, PyDict(NoKeys))
        ELSE ParseMembers(s, i + 1)
    ELSE ParseFail

ParseElems(s, i, acc) ==
    LET r == ParseValue(s, i)
    IN  IF ~r.ok \/ r.next > Len(s) THEN ParseFail
        ELSE IF s[r.next] = "," THEN ParseElems(s, r.next + 1, Append(acc, r.val))
        ELSE IF s[r.next] = "]" THEN ParseOk(r.next + 1, PyList(Append(acc, r.val)))
        ELSE ParseFail

ParseMembers(s, i) ==
    IF i + 1 > Len(s) \/ s[i] # Member THEN ParseFail
    ELSE IF s[i + 1] = "," THEN ParseMembers(s, i + 2)
    ELSE IF s[i + 1] = "}" THEN ParseOk(i + 2, PyDict(NoKeys))
    ELSE ParseFail

\* json.loads(text): the parsed value, or JSONDecodeError
json_loads(text) ==
    LET s == SelectSeq(text, LAMBDA t : t \notin WS)
        r == ParseValue(s, 1)
    IN  IF r.ok /\ r.next = Len(s) + 1 THEN r.val ELSE JSONDecodeError

isinstance_list(v) == v.t = "list"

(***************************************************************************)
(* String functions and regular expressions                                *)
(***************************************************************************)
RECURSIVE lstrip(_)
lstrip(s) == IF s # <<>> /\ Head(s) \in WS THEN lstrip(Tail(s)) ELSE s

RECURSIVE rstrip(_)
rstrip(s) == IF s # <<>> /\ s[Len(s)] \in WS THEN rstrip(Take(s, Len(s) - 1)) ELSE s

strip(s) == rstrip(lstrip(s))

\* re.sub of a fence with optional json and trailing blanks by the empty string
RECURSIVE SubFenceWs(_)
SubFenceWs(s) ==
    IF s = <<>> THEN <<>>
    ELSE IF Head(s) = Fence THEN SubFenceWs(lstrip(Tail(s)))
    ELSE <<Head(s)>> \o SubFenceWs(Tail(s))

\* re.sub / str.replace of a bare fence by the empty string
SubFence(s) == SelectSeq(s, LAMBDA t : t # Fence)

\* re.sub(r',\s*X', 'X', s) for the closing token X ("]" or "}")
RECURSIVE SubTrailingComma(_, _)
SubTrailingComma(s, close) ==
    IF s = <<>> THEN <<>>
    ELSE IF Head(s) = "," /\ lstrip(Tail(s)) # <<>> /\ Head(lstrip(Tail(s))) = close
         THEN <<close>> \o SubTrailingComma(Tail(lstrip(Tail(s))), close)
         ELSE <<Head(s)>> \o SubTrailingComma(Tail(s), close)

\* s.replace(old, new) for single lexemes
RECURSIVE replace(_, _, _)
replace(s, old, new) ==
    IF s = <<>> THEN <<>>
    ELSE (IF Head(s) = old THEN new ELSE <<Head(s)>>) \o replace(Tail(s), old, new)

\* re.search(r'(\[.*\])', txt, DOTALL): greedy, first "[" to last "]";
\* <<>> when there is no match (a match is never empty)
SearchArray(txt) ==
    LET a == find(txt, "[")
        b == rfind(txt, "]")
    IN  IF a # 0 /\ b > a THEN SubSeq(txt, a, b) ELSE <<>>

HasBrace(t) == t \in {"{", "}"} \cup ObjLits

\* re.findall(r'\{[^{}]*\}', txt, DOTALL): the flat brace-delimited blocks,
\* left to right, non-overlapping; each block is a token sequence
RECURSIVE FindObjects(_)
FindObjects(s) ==
    IF s = <<>> THEN <<>>
    ELSE IF Head(s) \in ObjLits THEN <<<<Head(s)>>>> \o FindObjects(Tail(s))
    ELSE IF Head(s) = "{" THEN
        LET rest == Tail(s)
            braces == {i \in 1..Len(rest) : HasBrace(rest[i])}
            q == IF braces = {} THEN 0
                 ELSE CHOOSE i \in braces : \A j \in braces : i <= j
        IN  IF q # 0 /\ rest[q] = "}"
            THEN <<Take(s, q + 1)>> \o FindObjects(Drop(s, q + 1))
            ELSE FindObjects(rest)
    ELSE FindObjects(Tail(s))

\* "[" + ",".join(objs) + "]"
RECURSIVE Join(_)
Join(objs) ==
    IF objs = <<>> THEN <<>>
    ELSE IF Len(objs) = 1 THEN Head(objs)
    ELSE Head(objs) \o <<",">> \o Join(Tail(objs))

EmptyArray == <<"[", "]">>        \* the text "[]"

(***************************************************************************)
(* ResponseSanitizer: ai_core.clean_and_fix_json                           *)
(***************************************************************************)
clean_and_fix_json(raw_text) ==
    IF raw_text = <<>> \/ strip(raw_text) = <<>> THEN EmptyArray
    ELSE
    LET txt == SubFence(SubFenceWs(strip(raw_text)))
        m == SearchArray(txt)
        objs == FindObjects(txt)
        candidate0 == IF m # <<>> THEN m
                      ELSE IF objs # <<>> THEN <<"[">> \o Join(objs) \o <<"]">>
                      ELSE txt
        candidate1 == SubTrailingComma(candidate0, "]")
        candidate2 == SubTrailingComma(candidate1, "}")
        candidate == replace(candidate2, EscNewline, <<" ">>)
        alt == SubTrailingComma(replace(candidate, SQString, <<DQString>>), "]")
    IN  IF json_loads(candidate) # JSONDecodeError THEN candidate
        ELSE IF json_loads(alt) # JSONDecodeError THEN alt
        ELSE EmptyArray

(***************************************************************************)
(* Legacy sanitizer: ai_functions.clean_and_fix_json                       *)
(* (no validation of the result: the caller parses it)                     *)
(***************************************************************************)
ai_functions_clean_and_fix_json(json_text) ==
    LET t1 == SubFence(json_text)
        start_idx == find(t1, "[")
        end_idx == rfind(t1, "]")
        t2 == IF start_idx # 0 /\ end_idx # 0 THEN SubSeq(t1, start_idx, end_idx) ELSE t1
        t3 == SubTrailingComma(t2, "}")
    IN  SubTrailingComma(t3, "]")

(***************************************************************************)
(* Outcome of one call of an AI back end: the call (or reading the text of *)
(* its response) raises, or a response text is received                    *)
(***************************************************************************)
AIRaise == [raised |-> TRUE, text |-> <<>>]

AIText(t) == [raised |-> FALSE, text |-> t]

(***************************************************************************)
(* Llama-based functions: classification and schema inference              *)
(***************************************************************************)
\* str.upper() on the characters an answer is spelled with
UpperChar(c) ==
    CASE c = "y" -> "Y"
      [] c = "e" -> "E"
      [] c = "s" -> "S"
      [] c = "w" -> "W"
      [] OTHER -> c

upper(s) == [i \in 1..Len(s) |-> UpperChar(s[i])]

YES == <<"Y", "E", "S">>

\* the function returned the Boolean b: the path through the call and the
\* path through its exception handler both end in a return
Returned(b) == [ret |-> b, raised |-> FALSE]

\* is_transaction_table that answers False when the call fails (fail closed)
is_transaction_table_fail_closed(resp) ==
    IF resp.raised THEN Returned(FALSE)
    ELSE Returned(upper(strip(resp.text)) = YES)

\* is_transaction_table(image), identical in ai_core and ai_functions
is_transaction_table(resp) ==
    IF resp.raised THEN Returned(TRUE)
    ELSE LET response == upper(strip(resp.text))
         IN  Returned(response = YES)

DEFAULT_SCHEMA == <<"[", SchemaDefaultObj, "]">>

\* ai_core.detect_schema_from_first_table(image)
detect_schema_from_first_table(resp) ==
    IF resp.raised THEN DEFAULT_SCHEMA
    ELSE
    LET raw == strip(resp.text)
        m == SearchArray(raw)
        schema == strip(m)
    IN  IF m # <<>>
        THEN IF json_loads(schema) # JSONDecodeError THEN schema ELSE DEFAULT_SCHEMA
        ELSE DEFAULT_SCHEMA

\* ai_functions.detect_schema_from_first_table(image): the stripped answer,
\* unvalidated; the default literal only when the call raises
ai_functions_detect_schema_from_first_table(resp) ==
    IF resp.raised THEN DEFAULT_SCHEMA ELSE strip(resp.text)

(***************************************************************************)
(* Gemini-based bulk extraction                                            *)
(***************************************************************************)
\* the function returned the text t; both paths of extract_table_with_schema
\* end in a return
ReturnedText(t) == [text |-> t, raised |-> FALSE]

\* extract_table_with_schema(image, schema_template): the stripped answer, or
\* f"Error extracting table: {str(e)}"
extract_table_with_schema(schema_template, resp) ==
    IF resp.raised THEN ReturnedText(<<ErrorSentinel, " ", Prose>>)
    ELSE ReturnedText(strip(resp.text))

(***************************************************************************)
(* SchemaExpander and aggregation (file_utils)                             *)
(***************************************************************************)
PyNone == "None"

\* dict.get(key, default)
Get(rec, key, default) == IF key \in DOMAIN rec THEN rec[key] ELSE default

\* str.startswith for a one-lexeme prefix
startswith(s, prefix) == s # <<>> /\ Head(s) = prefix

\* the values of amount fields that are not numbers: None and two strings
IsNumber(v) == ToString(v) \notin {ToString(PyNone), ToString("1,500.00"), ToString("500")}

\* x or 0.0: the falsy values (None, 0) give 0.0
OrZero(x) == IF IsNumber(x) THEN x ELSE IF x = PyNone THEN 0 ELSE x

\* float(x) raises TypeError on None and ValueError on text that is no number
FloatRaises(x) == ~IsNumber(x) /\ x # "500"

float(x) == IF IsNumber(x) THEN x ELSE 500

\* file_utils.expand_compact_json raises: an element without .get
\* (AttributeError) or an amount float() rejects
expand_raises(compact_transactions) ==
    \E i \in 1..Len(compact_transactions) :
        \/ compact_transactions[i].t # "dict"
        \/ \E k \in {"dr", "cr", "bal"} :
              FloatRaises(OrZero(Get(compact_transactions[i].rec, k, 0)))

\* file_utils.expand_compact_json on a list of dicts, when it does not raise
expand_compact_json(compact_transactions) ==
    [i \in 1..Len(compact_transactions) |->
        LET transaction == compact_transactions[i].rec
        IN  [date |-> Get(transaction, "dt", PyNone),
             narration |-> Get(transaction, "desc", PyNone),
             reference_number |-> Get(transaction, "ref", PyNone),
             withdrawal_dr |-> float(OrZero(Get(transaction, "dr", 0))),
             deposit_cr |-> float(OrZero(Get(transaction, "cr", 0))),
             balance |-> float(OrZero(Get(transaction, "bal", 0))),
             transaction_type |->
                 IF upper(<<Get(transaction, "type", "")>>) = <<"W">>
                 THEN "Withdrawal" ELSE "Deposit"]]

\* the legacy utils.expand_compact_json: no "or 0.0", the type compared as
\* it is
utils_expand_raises(compact_transactions) ==
    \E i \in 1..Len(compact_transactions) :
        \/ compact_transactions[i].t # "dict"
        \/ \E k \in {"dr", "cr", "bal"} :
              FloatRaises(Get(compact_transactions[i].rec, k, 0))

utils_expand_compact_json(compact_transactions) ==
    [i \in 1..Len(compact_transactions) |->
        LET transaction == compact_transactions[i].rec
        IN  [date |-> Get(transaction, "dt", PyNone),
             narration |-> Get(transaction, "desc", PyNone),
             reference_number |-> Get(transaction, "ref", PyNone),
             withdrawal_dr |-> float(Get(transaction, "dr", 0)),
             deposit_cr |-> float(Get(transaction, "cr", 0)),
             balance |-> float(Get(transaction, "bal", 0)),
             transaction_type |->
                 IF Get(transaction, "type", PyNone) = "W"
                 THEN "Withdrawal" ELSE "Deposit"]]

\* the recovery scan of combine_json_texts_to_dataframe: the flat blocks that
\* hold a "dt" key, each repaired and parsed on its own
HasDt(block) ==
    Len(block) = 1 /\ block[1] \in ObjLits /\ "dt" \in DOMAIN RecOf(block[1])

RECURSIVE RecoverObjects(_)
RecoverObjects(blocks) ==
    IF blocks = <<>> THEN <<>>
    ELSE LET obj_text == SubTrailingComma(Head(blocks), "}")
             transaction == json_loads(obj_text)
         IN  (IF HasDt(Head(blocks)) /\ transaction # JSONDecodeError
              THEN <<transaction>> ELSE <<>>) \o RecoverObjects(Tail(blocks))

\* a test that skips the empty text only
SkipsOnlyEmpty(json_text) == json_text = <<>>

\* the test of file_utils line 70 that makes a table be skipped unread
SkipTable(json_text) ==
    json_text = <<>> \/ startswith(strip(json_text), ErrorSentinel)

\* the same test in the legacy utils.combine_json_texts_to_dataframe
utils_SkipTable(json_text) == startswith(json_text, ErrorSentinel)

\* one iteration of the loop of combine_json_texts_to_dataframe: the records
\* the table adds to all_records and whether its text was sanitized
CombineTable(json_text) ==
    IF SkipTable(json_text) THEN [recs |-> <<>>, sanitized |-> FALSE]
    ELSE
    LET clean_json == clean_and_fix_json(json_text)
        parsed == json_loads(clean_json)
        transactions == IF parsed = JSONDecodeError
                        THEN PyList(RecoverObjects(FindObjects(clean_json)))
                        ELSE parsed
    IN  IF \/ (parsed = JSONDecodeError /\ transactions.items = <<>>)
           \/ ~isinstance_list(transactions)
           \/ expand_raises(transactions.items)
        THEN [recs |-> <<>>, sanitized |-> TRUE]
        ELSE [recs |-> expand_compact_json(transactions.items), sanitized |-> TRUE]

RECURSIVE Concat(_)
Concat(seqs) == IF seqs = <<>> THEN <<>> ELSE Head(seqs) \o Concat(Tail(seqs))

\* a variant with the try around the whole loop instead of inside it: the
\* first table that raises ends the loop
combine_json_texts_to_dataframe_try_around_loop(json_texts) ==
    LET per == [i \in 1..Len(json_texts) |-> CombineTable(json_texts[i])]
        Raises(i) == LET parsed == json_loads(clean_and_fix_json(json_texts[i]))
                     IN  /\ ~SkipTable(json_texts[i])
                         /\ isinstance_list(parsed)
                         /\ expand_raises(parsed.items)
        contrib == [i \in 1..Len(json_texts) |->
                       IF \E j \in 1..i : Raises(j) THEN <<>> ELSE per[i].recs]
    IN  [records |-> Concat(contrib),
         contrib |-> contrib,
         sanitized |-> {i \in 1..Len(json_texts) : per[i].sanitized}]

\* file_utils.combine_json_texts_to_dataframe(json_texts, ...): the rows of
\* the returned frame, with the share of every table and the set of tables
\* whose text went through the sanitizer
combine_json_texts_to_dataframe(json_texts) ==
    LET per == [i \in 1..Len(json_texts) |-> CombineTable(json_texts[i])]
        contrib == [i \in 1..Len(json_texts) |-> per[i].recs]
    IN  [records |-> Concat(contrib),
         contrib |-> contrib,
         sanitized |-> {i \in 1..Len(json_texts) : per[i].sanitized}]

(***************************************************************************)
(* The legacy utils.combine_json_texts_to_dataframe, called without        *)
(* temp_pdf_path (no refinement between the two passes)                    *)
(***************************************************************************)
\* lines 101-149, one table of the first pass: the transactions it adds to
\* all_transactions.  The recovery scan of lines 113-139 adds nothing:
\* re.sub(r"\\+", "\\", obj_text) of line 125 raises re.error (the
\* replacement is a lone backslash) for every match, the handler of line 128
\* skips the object, and the table is given up at line 134.
utils_first_pass(json_text) ==
    IF utils_SkipTable(json_text) THEN <<>>
    ELSE LET transactions == json_loads(ai_functions_clean_and_fix_json(json_text))
         IN  IF transactions = JSONDecodeError \/ ~isinstance_list(transactions)
             THEN <<>>
             ELSE transactions.items

\* lines 193-227, the second pass from table idx on: transaction_idx is the
\* position reached in all_transactions; the slice of every table that
\* parses to a list is expanded and appended, and transaction_idx moves on
\* only when the expansion did not raise (the bare except of line 225)
RECURSIVE utils_second_pass(_, _, _, _)
utils_second_pass(json_texts, all_transactions, idx, transaction_idx) ==
    IF idx > Len(json_texts) THEN [expanded |-> <<>>, slices |-> <<>>]
    ELSE
    LET json_text == json_texts[idx]
        original_transactions == json_loads(ai_functions_clean_and_fix_json(json_text))
        is_list == /\ ~utils_SkipTable(json_text)
                   /\ original_transactions # JSONDecodeError
                   /\ isinstance_list(original_transactions)
        table_transaction_count == IF is_list THEN Len(original_transactions.items) ELSE 0
        last == IF transaction_idx + table_transaction_count < Len(all_transactions)
                THEN transaction_idx + table_transaction_count
                ELSE Len(all_transactions)
        table_refined_transactions == SubSeq(all_transactions, transaction_idx + 1, last)
        raises == is_list /\ utils_expand_raises(table_refined_transactions)
        rest == utils_second_pass(json_texts, all_transactions, idx + 1,
                                  IF is_list /\ ~raises
                                  THEN transaction_idx + table_transaction_count
                                  ELSE transaction_idx)
    IN  IF ~is_list THEN rest
        ELSE [expanded |-> (IF raises THEN <<>>
                            ELSE utils_expand_compact_json(table_refined_transactions))
                           \o rest.expanded,
              slices |-> <<[table |-> idx, start |-> transaction_idx,
                            count |-> table_transaction_count]>> \o rest.slices]

\* utils.combine_json_texts_to_dataframe(json_texts, image_paths)
utils_combine_json_texts_to_dataframe(json_texts) ==
    LET contrib == [i \in 1..Len(json_texts) |-> utils_first_pass(json_texts[i])]
        all_transactions == Concat(contrib)
        second == IF all_transactions # <<>>
                  THEN utils_second_pass(json_texts, all_transactions, 1, 0)
                  ELSE [expanded |-> <<>>, slices |-> <<>>]
    IN  [all_transactions |-> all_transactions,
         contrib |-> contrib,
         slices |-> second.slices,
         expanded_transactions |-> second.expanded]

(***************************************************************************)
(* process_pdf_extraction (vlm_extractor): the loop over the table images  *)
(***************************************************************************)
None == <<>>

\* a loop that classifies every table, also after the first transaction table
ClassifiesAlways(found) == TRUE

\* line 164: classification runs only while no transaction table was found
NeedsClassification(found) == ~found

\* a variant that passes reordered_schema on as it is, without "or
\* DEFAULT_SCHEMA"
schema_used_as_is(schema) == schema

\* a loop that always extracts with the default schema
schema_used_default(schema) == DEFAULT_SCHEMA

\* line 176: schema_used = reordered_schema or DEFAULT_SCHEMA
schema_used(schema) == IF schema = None THEN DEFAULT_SCHEMA ELSE schema

ClsEvent(img, yes) ==
    [fn |-> "is_transaction_table", img |-> img, yes |-> yes, text |-> <<>>, raised |-> FALSE]

DetEvent(img, schema) ==
    [fn |-> "detect_schema_from_first_table", img |-> img, yes |-> FALSE,
     text |-> schema, raised |-> FALSE]

ExtEvent(img, schema, raised) ==
    [fn |-> "extract_table_with_schema", img |-> img, yes |-> FALSE,
     text |-> schema, raised |-> raised]

(***************************************************************************)
(* TableCandidateLocator: SimplifiedTableExtractor (table_utils)           *)
(* A table is [page, bbox, txn]: its page, its _bbox (x1, y1, x2, y2) and  *)
(* the verdict of is_transaction_table on its cells.                       *)
(***************************************************************************)
Min(a, b) == IF a <= b THEN a ELSE b

Max(a, b) == IF a >= b THEN a ELSE b

\* merge_boxes without the growth: the anchor keeps its own box
merge_boxes_keep_first(bbox1, bbox2) == bbox1

\* merge_boxes(bbox1, bbox2)
merge_boxes(bbox1, bbox2) ==
    <<Min(bbox1[1], bbox2[1]), Min(bbox1[2], bbox2[2]),
      Max(bbox1[3], bbox2[3]), Max(bbox1[4], bbox2[4])>>

Area(bbox) == (bbox[3] - bbox[1]) * (bbox[4] - bbox[2])

\* inter_area / min(area1, area2) > threshold, with threshold = 0.3 = 3/10
\* (a negative divisor turns the comparison round)
RatioAbove(inter_area, divisor) ==
    IF divisor > 0 THEN 10 * inter_area > 3 * divisor
    ELSE 10 * inter_area < 3 * divisor

\* boxes_overlap(bbox1, bbox2, threshold=0.3)
boxes_overlap(bbox1, bbox2) ==
    LET inter_x1 == Max(bbox1[1], bbox2[1])
        inter_y1 == Max(bbox1[2], bbox2[2])
        inter_x2 == Min(bbox1[3], bbox2[3])
        inter_y2 == Min(bbox1[4], bbox2[4])
        inter_area == (inter_x2 - inter_x1) * (inter_y2 - inter_y1)
    IN  IF inter_x1 >= inter_x2 \/ inter_y1 >= inter_y2 THEN FALSE
        ELSE RatioAbove(inter_area, Min(Area(bbox1), Area(bbox2)))

\* boxes_overlap without the early return of lines 203-204: the ratio is
\* computed for every pair
boxes_overlap_call_without_early_return(bbox1, bbox2) ==
    LET inter_x1 == Max(bbox1[1], bbox2[1])
        inter_y1 == Max(bbox1[2], bbox2[2])
        inter_x2 == Min(bbox1[3], bbox2[3])
        inter_y2 == Min(bbox1[4], bbox2[4])
        inter_area == (inter_x2 - inter_x1) * (inter_y2 - inter_y1)
        divisor == Min(Area(bbox1), Area(bbox2))
    IN  [divided |-> TRUE, divisor |-> divisor, raised |-> divisor = 0,
         result |-> divisor # 0 /\ RatioAbove(inter_area, divisor)]

\* boxes_overlap(bbox1, bbox2, threshold=0.3) with the steps of the call: the
\* early return for an empty intersection, the divisor min(area1, area2) and
\* the ZeroDivisionError that a divisor of 0 raises
boxes_overlap_call(bbox1, bbox2) ==
    LET inter_x1 == Max(bbox1[1], bbox2[1])
        inter_y1 == Max(bbox1[2], bbox2[2])
        inter_x2 == Min(bbox1[3], bbox2[3])
        inter_y2 == Min(bbox1[4], bbox2[4])
        inter_area == (inter_x2 - inter_x1) * (inter_y2 - inter_y1)
        divisor == Min(Area(bbox1), Area(bbox2))
    IN  IF inter_x1 >= inter_x2 \/ inter_y1 >= inter_y2
        THEN [divided |-> FALSE, divisor |-> 0, raised |-> FALSE, result |-> FALSE]
        ELSE [divided |-> TRUE, divisor |-> divisor, raised |-> divisor = 0,
              result |-> divisor # 0 /\ RatioAbove(inter_area, divisor)]

\* lines 229-233: the inner loop over j = from .. len - 1 for one anchor;
\* the anchor box grows with every table it absorbs
RECURSIVE Absorb(_, _, _, _, _)
Absorb(page_table_list, used, j, current_bbox, overlapping) ==
    IF j > Len(page_table_list)
    THEN [bbox |-> current_bbox, overlapping |-> overlapping]
    ELSE IF j \notin used /\ boxes_overlap(current_bbox, page_table_list[j].bbox)
         THEN Absorb(page_table_list, used, j + 1,
                     merge_boxes(current_bbox, page_table_list[j].bbox),
                     overlapping \cup {j})
         ELSE Absorb(page_table_list, used, j + 1, current_bbox, overlapping)

\* lines 223-238: the outer loop over the tables of one page
RECURSIVE MergePage(_, _, _)
MergePage(page_table_list, i, used) ==
    IF i > Len(page_table_list) THEN <<>>
    ELSE IF i \in used THEN MergePage(page_table_list, i + 1, used)
    ELSE LET a == Absorb(page_table_list, used, i + 1, page_table_list[i].bbox, {i})
             merged_table == [page_table_list[i] EXCEPT !.bbox = a.bbox]
         IN  <<merged_table>> \o MergePage(page_table_list, i + 1, used \cup a.overlapping)

\* the overlapping lists the outer loop builds for one page, in order: the
\* positions in page_table_list that each anchor took
RECURSIVE OverlappingLists(_, _, _)
OverlappingLists(page_table_list, i, used) ==
    IF i > Len(page_table_list) THEN <<>>
    ELSE IF i \in used THEN OverlappingLists(page_table_list, i + 1, used)
    ELSE LET a == Absorb(page_table_list, used, i + 1, page_table_list[i].bbox, {i})
         IN  <<a.overlapping>>
             \o OverlappingLists(page_table_list, i + 1, used \cup a.overlapping)

\* the keys of page_tables in insertion order: the pages of the retained
\* tables, by first appearance
RECURSIVE PagesInOrder(_, _)
PagesInOrder(tables, seen) ==
    IF tables = <<>> THEN <<>>
    ELSE IF Head(tables).txn /\ Head(tables).page \notin seen
         THEN <<Head(tables).page>> \o PagesInOrder(Tail(tables), seen \cup {Head(tables).page})
         ELSE PagesInOrder(Tail(tables), seen)

\* merge_overlapping_tables(tables)
merge_overlapping_tables(tables) ==
    LET pages == PagesInOrder(tables, {})
        page_tables(page_num) == SelectSeq(tables, LAMBDA t : t.txn /\ t.page = page_num)
    IN  Concat([k \in 1..Len(pages) |-> MergePage(page_tables(pages[k]), 1, {})])

\* the overlapping lists of merge_overlapping_tables(tables), one per merged
\* table and in the order of merged_tables, as positions in tables (a page
\* with a single table gives the list of that table alone, lines 219-221)
merge_overlapping_lists(tables) ==
    LET pages == PagesInOrder(tables, {})
        positions(page_num) ==
            SelectSeq([i \in 1..Len(tables) |-> i],
                      LAMBDA i : tables[i].txn /\ tables[i].page = page_num)
        page_tables(page_num) ==
            [k \in 1..Len(positions(page_num)) |-> tables[positions(page_num)[k]]]
        lists(page_num) == OverlappingLists(page_tables(page_num), 1, {})
    IN  Concat([k \in 1..Len(pages) |->
                  [g \in 1..Len(lists(pages[k])) |->
                      {positions(pages[k])[m] : m \in lists(pages[k])[g]}]])

\* lines 263-274 of extract_all_tables: the calls of camelot.read_pdf, in
\* order, each with its outcome ("raised", "empty" or "tables"): the stream
\* flavor with tolerances, the plain stream flavor if that gave no table, and
\* the lattice flavor from the handler of the first two
read_pdf_cascade(stream_tol, stream_plain, lattice) ==
    LET first == <<[flavor |-> "stream_tol", outcome |-> stream_tol]>>
        second == IF stream_tol = "empty"
                  THEN <<[flavor |-> "stream", outcome |-> stream_plain]>>
                  ELSE <<>>
        in_try == first \o second
        third == IF in_try[Len(in_try)].outcome = "raised"
                 THEN <<[flavor |-> "lattice", outcome |-> lattice]>>
                 ELSE <<>>
    IN  in_try \o third

\* extract_all_tables(pdf_path, output_dir) with redact=True.  redaction is
\* the outcome of redact_pdf ("modified", "unmodified", "raised"), opened
\* that of fitz.open, merged_n the number of tables merge_overlapping_tables
\* returns when Camelot found tables, crop_ok the number of tables cropped
\* and saved before a rendering step raises (merged_n: none raises).
\* paths[i] is the PDF the i-th cropped image was rendered from.
extract_all_tables(redaction, opened, stream_tol, stream_plain, lattice, merged_n, crop_ok) ==
    LET pdf_to_process == IF redaction = "modified" THEN "redacted" ELSE "original"
        calls == read_pdf_cascade(stream_tol, stream_plain, lattice)
        tables == calls[Len(calls)].outcome
        n == IF tables = "tables" THEN merged_n ELSE 0
        k == IF crop_ok < n THEN crop_ok ELSE n
    IN  IF ~opened
        THEN \* line 257 is outside the try: nothing is cleaned up
             [done |-> TRUE, raised |-> TRUE, calls |-> <<>>, paths |-> <<>>,
              saved |-> 0, redacted_left |-> (redaction = "modified")]
        ELSE [done |-> TRUE,
              raised |-> (tables = "raised" \/ k < n),
              calls |-> calls,
              paths |-> IF tables = "raised" \/ k < n THEN <<>>
                        ELSE [i \in 1..n |-> pdf_to_process],
              saved |-> k,
              redacted_left |-> FALSE]

\* the artifacts of a run: the saved PDF, the redacted copy, cropped images
File(kind, idx) == [kind |-> kind, idx |-> idx]

\* cleanup_temp_dir(pdf_name): shutil.rmtree of the folder of the document
cleanup_temp_dir(files) == {}

(***************************************************************************)
(* PDFProcessor.redact_pdf (table_utils and credit_card_modules)           *)
(***************************************************************************)
OFFSET == 15

\* round(n / d) of Python for integers n >= 0, d > 0: halves go to the even
\* neighbour
PyRound(n, d) ==
    LET q == n \div d
        r == n % d
    IN  IF 2 * r < d THEN q
        ELSE IF 2 * r > d THEN q + 1
        ELSE IF q % 2 = 0 THEN q ELSE q + 1

\* merge_blocks_by_line: the y of the line a block at b1 goes to
\* (tolerance = 6)
merge_line_y(b1) == PyRound(b1, 6) * 6

\* detect_header_y(merged_lines) for a page described by whether one of its
\* lines passes the header tests (with two transaction lines below it) and
\* by the y0 of the block of that line: the y of the line, or None
detect_header_y(page) ==
    IF page.header THEN [found |-> TRUE, y |-> merge_line_y(page.y0)]
    ELSE [found |-> FALSE, y |-> 0]

\* the test "if header_y:" of redact_pdf: None and 0 are falsy
HeaderYTruthy(header_y) == header_y.found /\ header_y.y # 0

(***************************************************************************)
(* Retry loops of the AI requests (credit_card_modules) and the single     *)
(* calls of ai_core                                                        *)
(***************************************************************************)
MAX_RETRIES == 3

\* MarkdownProcessor.retry_delays
retry_delays == <<1, 2, 4>>

\* what one iteration of a retry loop does after its request: it sleeps
\* delay seconds (0: no sleep) and then continues with the next iteration,
\* breaks out of the loop, returns a value or raises
Step(delay, then) == [delay |-> delay, then |-> then]

\* one iteration of the loop of MarkdownProcessor._make_api_request, attempt
\* counted from 0.  Outcomes of the request: "ok" (status 200 with content),
\* "invalid_200" (status 200 without choices, without content, with empty
\* content or with a body that does not parse), "429", "429_bad_header" (a
\* Retry-After value int() rejects), "401", "4xx", "5xx", "timeout", "error"
groq_iteration(attempt, outcome) ==
    LET delay == retry_delays[(IF attempt < Len(retry_delays) - 1 THEN attempt
                                ELSE Len(retry_delays) - 1) + 1]
        retry_or_break == IF attempt < MAX_RETRIES - 1 THEN Step(delay, "continue")
                          ELSE Step(0, "break")
    IN  CASE outcome = "ok" -> Step(0, "return content")
          [] outcome = "invalid_200" -> Step(0, "continue")
          [] outcome = "429" -> Step(delay, "continue")
          [] outcome = "429_bad_header" -> retry_or_break
          [] outcome = "401" -> Step(0, "break")
          [] outcome = "4xx" -> Step(0, "break")
          [] outcome = "5xx" -> retry_or_break
          [] outcome = "timeout" ->
                IF attempt < MAX_RETRIES - 1 THEN Step(delay, "continue")
                ELSE Step(0, "continue")
          [] outcome = "error" -> retry_or_break

\* one iteration of the loop of GeminiExtractor.
\* extract_transactions_from_markdown.  Outcomes: "ok" (status 200 with
\* candidates), "no_candidates", "malformed_200" (status 200 whose body does
\* not parse or lacks content), "non200", "timeout", "error"
gemini_iteration(attempt, outcome) ==
    LET last == attempt = MAX_RETRIES - 1
    IN  CASE outcome = "ok" -> Step(0, "return content")
          [] outcome = "no_candidates" -> Step(0, "return None")
          [] outcome = "non200" ->
                \* line 118 raises inside the try: the handler of line 125
                \* catches it and raises it again
                IF last THEN Step(0, "raise") ELSE Step(0, "continue")
          [] outcome = "timeout" ->
                IF last THEN Step(0, "raise") ELSE Step(0, "continue")
          [] outcome \in {"malformed_200", "error"} ->
                IF last THEN Step(0, "raise") ELSE Step(2 ^ attempt, "continue")

\* the events one iteration adds to the log of the request
Events(outcome, step) ==
    <<[e |-> "attempt", outcome |-> outcome, delay |-> 0]>>
    \o (IF step.delay > 0 THEN <<[e |-> "sleep", outcome |-> outcome, delay |-> step.delay]>>
        ELSE <<>>)

\* the value the function ends with after this iteration ("pending": the
\* loop goes on); a loop that breaks or runs out returns None
ResultAfter(attempt, step) ==
    CASE step.then = "return content" -> "content"
      [] step.then = "return None" -> "None"
      [] step.then = "raise" -> "raised"
      [] step.then = "break" -> "None"
      [] step.then = "continue" ->
            IF attempt = MAX_RETRIES - 1 THEN "None" ELSE "pending"

(***************************************************************************)
(* ReconciliationStage                                                     *)
(* An outcome records the returned list, whether an exception left the     *)
(* function, the number of AI calls made and whether the function logged   *)
(* a successful refinement.                                                *)
(***************************************************************************)
Ret(list, calls, success) ==
    [ret |-> list, raised |-> FALSE, calls |-> calls, success |-> success]

Raised(calls) ==
    [ret |-> <<>>, raised |-> TRUE, calls |-> calls, success |-> FALSE]

\* refine_with_camelot_reference with the AI call moved out of the try block:
\* an exception of the call leaves the function
refine_with_camelot_reference_call_outside_try(llm_transactions, camelot_empty, resp) ==
    IF llm_transactions = <<>> \/ camelot_empty THEN Ret(llm_transactions, 0, FALSE)
    ELSE IF resp.raised THEN Raised(1)
    ELSE
    LET cleaned_json == clean_and_fix_json(strip(resp.text))
        corrected_transactions == json_loads(cleaned_json)
    IN  IF corrected_transactions # JSONDecodeError
           /\ isinstance_list(corrected_transactions)
        THEN Ret(corrected_transactions.items, 1, TRUE)
        ELSE Ret(llm_transactions, 1, FALSE)

\* ai_core.refine_with_camelot_reference(llm_transactions, camelot_df, schema)
refine_with_camelot_reference(llm_transactions, camelot_empty, resp) ==
    IF llm_transactions = <<>> \/ camelot_empty THEN Ret(llm_transactions, 0, FALSE)
    ELSE IF resp.raised THEN Ret(llm_transactions, 1, FALSE)
    ELSE
    LET corrected_raw == strip(resp.text)
        cleaned_json == clean_and_fix_json(corrected_raw)
        corrected_transactions == json_loads(cleaned_json)
    IN  IF corrected_transactions # JSONDecodeError
           /\ isinstance_list(corrected_transactions)
        THEN Ret(corrected_transactions.items, 1, TRUE)
        ELSE Ret(llm_transactions, 1, FALSE)

\* ai_functions.refine_with_camelot_reference_simple(llm_transactions, camelot_df)
\* (.get on an element that is not a dict raises AttributeError inside the try)
refine_with_camelot_reference_simple(llm_transactions, camelot_empty, resp) ==
    IF llm_transactions = <<>> \/ camelot_empty THEN Ret(llm_transactions, 0, FALSE)
    ELSE IF resp.raised THEN Ret(llm_transactions, 1, FALSE)
    ELSE
    LET corrected_json == strip(resp.text)
        cleaned_json == ai_functions_clean_and_fix_json(corrected_json)
        corrected_transactions == json_loads(cleaned_json)
    IN  IF corrected_transactions = JSONDecodeError THEN Ret(llm_transactions, 1, FALSE)
        ELSE IF isinstance_list(corrected_transactions)
                /\ Len(corrected_transactions.items) = Len(llm_transactions)
        THEN IF \E i \in 1..Len(llm_transactions) :
                    \/ llm_transactions[i].t # "dict"
                    \/ corrected_transactions.items[i].t # "dict"
             THEN Ret(llm_transactions, 1, FALSE)
             ELSE Ret(corrected_transactions.items, 1, TRUE)
        ELSE Ret(llm_transactions, 1, FALSE)

\* balance continuity of a list of records in ascending date order:
\* balance[n] == balance[n-1] + credit[n] - debit[n]
HasAmounts(v) == v.t = "dict" /\ {"dr", "cr", "bal"} \subseteq DOMAIN v.rec

BalanceContinuity(list) ==
    \A n \in 2..Len(list) :
        /\ HasAmounts(list[n - 1])
        /\ HasAmounts(list[n])
        /\ list[n].rec.bal = list[n - 1].rec.bal + list[n].rec.cr - list[n].rec.dr

(***************************************************************************)
(* Idle values of the variables a specification does not use               *)
(***************************************************************************)
SanIdle ==
    /\ sanIn = <<>>
    /\ sanOutCore = <<>>
    /\ sanOutFn = <<>>
    /\ sanPc = "idle"

RecIdle ==
    /\ recRecords = <<>>
    /\ recRefEmpty = TRUE
    /\ recResp = AIRaise
    /\ recCore = Ret(<<>>, 0, FALSE)
    /\ recSimple = Ret(<<>>, 0, FALSE)
    /\ recPc = "idle"

AiIdle ==
    /\ aiResp = AIRaise
    /\ aiCls = Returned(FALSE)
    /\ aiSchema = <<>>
    /\ aiSchemaFn = <<>>
    /\ aiPc = "idle"

NoCombined == [records |-> <<>>, contrib |-> <<>>, sanitized |-> {}]

PipeIdle ==
    /\ pipeN = 0
    /\ pipeIdx = 0
    /\ first_transaction_table_found = FALSE
    /\ reordered_schema = None
    /\ extracted_json_texts = <<>>
    /\ pipeLog = <<>>
    /\ combined = NoCombined
    /\ pipePc = "idle"

MergeIdle ==
    /\ mIn = <<>>
    /\ mOut = <<>>
    /\ mTwice = <<>>
    /\ mPermOut = <<>>
    /\ mPc = "idle"

NoExtraction ==
    [done |-> FALSE, raised |-> FALSE, calls |-> <<>>, paths |-> <<>>,
     saved |-> 0, redacted_left |-> FALSE]

LocIdle ==
    /\ disk = {}
    /\ keep_temp = FALSE
    /\ locRedaction = "none"
    /\ locExt = NoExtraction
    /\ runOutcome = "pending"
    /\ locPc = "idle"

RqIdle ==
    /\ rqKind = "idle"
    /\ rqLog = <<>>
    /\ rqResult = "pending"

NoUtilsCombined == [all_transactions |-> <<>>, contrib |-> <<>>, slices |-> <<>>,
                    expanded_transactions |-> <<>>]

CombIdle ==
    /\ combTexts = <<>>
    /\ combOut = NoCombined
    /\ combUtils = NoUtilsCombined
    /\ combPc = "idle"

NoOverlapCall == [divided |-> FALSE, divisor |-> 0, raised |-> FALSE, result |-> FALSE]

NoPagesResult == [returned |-> FALSE, none |-> FALSE, parts |-> <<>>]

\* ProcessingState(): the defaults of the dataclass (the fields the run of
\* process_pdf_file assigns)
ProcessingState ==
    [processing_complete |-> FALSE, df |-> "None", uploaded_file_name |-> "None",
     redacted_images |-> "empty", processing_started |-> FALSE]

NoRun ==
    [write |-> "ok", redact_pdf |-> "False", extract_text_from_pdf |-> "empty",
     convert_pdf_to_images |-> "empty", process_all_images_with_preview |-> "None",
     extract_transactions_from_markdown |-> "None", process_gemini_result |-> "None",
     enhance |-> "ok", redacted_images |-> "ok"]

\* BankStatementExtractor(): the attributes __init__ sets (extracted_headers
\* and header_row_index are None: the empty list and -1 here)
BankStatementExtractor ==
    [all_transactions |-> <<>>, extracted_headers |-> <<>>,
     first_table_processed |-> FALSE, header_row_index |-> -1]

\* idle values of the later variable groups
RedIdle ==
    /\ redPages = <<>>
    /\ redIdx = 0
    /\ modified = FALSE
    /\ redRects = <<>>
    /\ redSaved = FALSE
    /\ redPc = "idle"

OvIdle ==
    /\ ovPair = <<>>
    /\ ovCall = NoOverlapCall
    /\ ovPc = "idle"

PtIdle ==
    /\ ptIn = <<>>
    /\ ptOut = <<>>
    /\ ptGroups = <<>>
    /\ ptPc = "idle"

CcIdle ==
    /\ ccVariant = "none"
    /\ image_paths = <<>>
    /\ ccIdx = 0
    /\ ccSent = <<>>
    /\ all_markdown = <<>>
    /\ ccResult = NoPagesResult
    /\ ccPc = "idle"

PfIdle ==
    /\ state = ProcessingState
    /\ pfEnv = NoRun
    /\ pfReturned = "pending"
    /\ pfPc = "idle"

HdIdle ==
    /\ hdTables = <<>>
    /\ hdIdx = 0
    /\ extractor = BankStatementExtractor
    /\ hdPc = "idle"

LateIdle == RedIdle /\ OvIdle /\ PtIdle /\ CcIdle /\ PfIdle /\ HdIdle

\* end of the idle values

ExtIdle == LocIdle /\ RqIdle /\ CombIdle /\ LateIdle

BaseIdle ==
    SanIdle /\ RecIdle /\ AiIdle /\ PipeIdle /\ MergeIdle /\ LocIdle /\ RqIdle /\ CombIdle

(***************************************************************************)
(* Specification of the sanitizer on arbitrary raw texts                   *)
(***************************************************************************)
SanAlphabet ==
    {"[", "]", "{", "}", ",", Member, Number, Prose, Fence, " ", SQString, EscNewline}

SanInit ==
    /\ sanIn \in SeqsUpTo(SanAlphabet, SanMaxLen)
    /\ sanOutCore = <<>>
    /\ sanOutFn = <<>>
    /\ sanPc = "start"
    /\ RecIdle
    /\ AiIdle
    /\ PipeIdle
    /\ MergeIdle
    /\ ExtIdle

Sanitize ==
    /\ sanPc = "start"
    /\ sanOutCore' = clean_and_fix_json(sanIn)
    /\ sanOutFn' = ai_functions_clean_and_fix_json(sanIn)
    /\ sanPc' = "done"
    /\ UNCHANGED <<sanIn, recVars, aiVars, pipeVars, mergeVars, extVars>>

SanNext == Sanitize

SpecSanitize == SanInit /\ [][SanNext]_vars

\* C2: for any input string the sanitizer returns a text that parses as a
\* JSON array, never a scalar, an object or unparseable text
C2_SanitizerReturnsArray ==
    sanPc = "done" => isinstance_list(json_loads(sanOutCore))

(***************************************************************************)
(* Specification of the reconciliation stage                               *)
(***************************************************************************)
RecordDicts == {PyDict(RecOf(o)) : o \in TxnLits}

\* "[" + elements separated by commas + "]"
RenderArray(elems) ==
    <<"[">> \o Join([i \in 1..Len(elems) |-> <<elems[i]>>]) \o <<"]">>

\* the texts the model may answer with: arrays of up to one element more
\* than the records (elements are records or numbers), bare or fenced or
\* with a trailing comma or introduced by prose; the objects alone without
\* brackets; and answers that hold no array at all
RecResponseTexts ==
    LET lists == SeqsUpTo(TxnLits \cup {Number}, RecMaxRecords + 1)
        arrays == {RenderArray(l) : l \in lists}
    IN  arrays
        \cup {<<Fence, " ">> \o a \o <<" ", Fence>> : a \in arrays}
        \cup {<<Prose, " ">> \o a : a \in arrays}
        \cup {Take(a, Len(a) - 1) \o <<",", "]">> : a \in arrays}
        \cup {Join([i \in 1..Len(l) |-> <<l[i]>>]) : l \in lists}
        \cup {<<>>, <<" ">>, <<Prose>>, <<"[">>, <<"]", "[">>, <<"{", Member, "}">>}

RecResponses == {AIRaise} \cup {AIText(t) : t \in RecResponseTexts}

RecInit ==
    /\ recRecords \in SeqsUpTo(RecordDicts, RecMaxRecords)
    /\ recRefEmpty \in BOOLEAN
    /\ recResp = AIRaise
    /\ recCore = Ret(<<>>, 0, FALSE)
    /\ recSimple = Ret(<<>>, 0, FALSE)
    /\ recPc = "start"
    /\ SanIdle
    /\ AiIdle
    /\ PipeIdle
    /\ MergeIdle
    /\ ExtIdle

Reconcile ==
    /\ recPc = "start"
    /\ \E resp \in RecResponses :
        /\ recResp' = resp
        /\ recCore' = refine_with_camelot_reference(recRecords, recRefEmpty, resp)
        /\ recSimple' = refine_with_camelot_reference_simple(recRecords, recRefEmpty, resp)
    /\ recPc' = "done"
    /\ UNCHANGED <<recRecords, recRefEmpty, sanVars, aiVars, pipeVars, mergeVars, extVars>>

RecNext == Reconcile

SpecReconcile == RecInit /\ [][RecNext]_vars

\* C1: with non-empty records and a non-empty reference table the returned
\* list has exactly len(records) elements, whatever the model answered
C1_SameLength ==
    (recPc = "done" /\ recRecords # <<>> /\ ~recRefEmpty)
        => Len(recCore.ret) = Len(recRecords)

\* C3: a result reported as successfully corrected satisfies balance
\* continuity between every adjacent pair of returned records
C3_SuccessImpliesContinuity ==
    (recPc = "done" /\ recCore.success) => BalanceContinuity(recCore.ret)

\* C7: the reconciliation stage is fail-safe: with empty records or an empty
\* reference table it returns the input records without any AI call; when
\* the AI call raises, or the response does not parse, it returns the very
\* same original records; no exception leaves the function
C7_FailSafe ==
    recPc = "done" =>
        /\ ~recCore.raised /\ ~recSimple.raised
        /\ (recRecords = <<>> \/ recRefEmpty) =>
              /\ recCore.ret = recRecords /\ recCore.calls = 0
              /\ recSimple.ret = recRecords /\ recSimple.calls = 0
        /\ recResp.raised =>
              /\ recCore.ret = recRecords
              /\ recSimple.ret = recRecords
        /\ json_loads(clean_and_fix_json(strip(recResp.text))) = JSONDecodeError
              => recCore.ret = recRecords
        /\ json_loads(ai_functions_clean_and_fix_json(strip(recResp.text))) = JSONDecodeError
              => recSimple.ret = recRecords

\* the AI call was made for two records and raised; the records came back
C7_Witness ==
    /\ recPc = "done"
    /\ Len(recRecords) = 2
    /\ ~recRefEmpty
    /\ recResp.raised
    /\ recCore.calls = 1
    /\ recCore.ret = recRecords
    /\ recSimple.ret = recRecords

(***************************************************************************)
(* Specification of the Llama-based functions on arbitrary answers         *)
(***************************************************************************)
ClsAlphabet == {"Y", "E", "S", "y", "e", "s", "N", "O", " "}

SchAlphabet == {"[", "]", ",", SchemaReorderedObj, DateOrderDesc, Prose, " "}

\* the outcomes of one call: failure, or an answer over either alphabet
AiResponses(clsLen, schLen) ==
    {AIRaise}
    \cup {AIText(t) : t \in SeqsUpTo(ClsAlphabet, clsLen)}
    \cup {AIText(t) : t \in SeqsUpTo(SchAlphabet, schLen)}

AiInit ==
    /\ aiResp \in AiResponses(ClsMaxLen, SchMaxLen)
    /\ aiCls = Returned(FALSE)
    /\ aiSchema = <<>>
    /\ aiSchemaFn = <<>>
    /\ aiPc = "start"
    /\ SanIdle
    /\ RecIdle
    /\ PipeIdle
    /\ MergeIdle
    /\ ExtIdle

Classify ==
    /\ aiPc = "start"
    /\ aiCls' = is_transaction_table(aiResp)
    /\ aiPc' = "classified"
    /\ UNCHANGED <<aiResp, aiSchema, aiSchemaFn, sanVars, recVars, pipeVars, mergeVars, extVars>>

DetectSchema ==
    /\ aiPc = "start"
    /\ aiSchema' = detect_schema_from_first_table(aiResp)
    /\ aiSchemaFn' = ai_functions_detect_schema_from_first_table(aiResp)
    /\ aiPc' = "detected"
    /\ UNCHANGED <<aiResp, aiCls, sanVars, recVars, pipeVars, mergeVars, extVars>>

AiNext == Classify \/ DetectSchema

SpecAI == AiInit /\ [][AiNext]_vars

\* C6: is_transaction_table fails open: when the classification call raises
\* it returns true and propagates nothing; it returns false only on an
\* answer that was received and is not exactly YES once trimmed and
\* upper-cased
C6_FailOpen ==
    aiPc = "classified" =>
        /\ ~aiCls.raised
        /\ aiResp.raised => aiCls.ret
        /\ ~aiCls.ret => (~aiResp.raised /\ upper(strip(aiResp.text)) # YES)

\* the classification call raised and the table counts as transactional
C6_Witness ==
    aiPc = "classified" /\ aiResp.raised /\ aiCls.ret /\ ~aiCls.raised

\* C9: schema inference returns the fixed default schema when the call
\* raises, when the answer holds no bracketed array, and when the bracketed
\* text is not valid JSON
NoUsableArray(resp) ==
    \/ resp.raised
    \/ SearchArray(strip(resp.text)) = <<>>
    \/ json_loads(strip(SearchArray(strip(resp.text)))) = JSONDecodeError

C9_DefaultSchemaOnFailure ==
    (aiPc = "detected" /\ NoUsableArray(aiResp)) =>
        /\ aiSchema = DEFAULT_SCHEMA
        /\ aiSchemaFn = DEFAULT_SCHEMA

(***************************************************************************)
(* Specification of process_pdf_extraction                                 *)
(***************************************************************************)
\* answers of the classification call: failure, YES, NO
PipeClsOutcomes == {AIRaise, AIText(YES), AIText(<<"N", "O">>)}

\* answers of the schema-inference call: failure, a reordered schema with
\* its date order, prose without any array
PipeSchOutcomes ==
    {AIRaise,
     AIText(<<"[", SchemaReorderedObj, "]", " ", DateOrderDesc>>),
     AIText(<<Prose, " ", Prose>>)}

\* answers of the extraction call: failure, a fenced array of two records
\* with a trailing comma, an array of one record, prose
PipeExtOutcomes ==
    {AIRaise,
     AIText(<<Fence, " ", "[", ObjOpening, ",", ObjCredit, ",", "]", " ", Fence>>),
     AIText(<<"[", ObjDebit, "]">>),
     AIText(<<Prose>>)}

PipeInit ==
    /\ pipeN \in 0..PipeMaxTables
    /\ pipeIdx = 0
    /\ first_transaction_table_found = FALSE
    /\ reordered_schema = None
    /\ extracted_json_texts = <<>>
    /\ pipeLog = <<>>
    /\ combined = NoCombined
    /\ pipePc = "loop"
    /\ SanIdle
    /\ RecIdle
    /\ AiIdle
    /\ MergeIdle
    /\ ExtIdle

\* lines 144-146: no cropped image, "No tables detected", return None, None
NoTables ==
    /\ pipePc = "loop"
    /\ pipeN = 0
    /\ pipePc' = "done"
    /\ UNCHANGED <<pipeN, pipeIdx, first_transaction_table_found, reordered_schema,
                   extracted_json_texts, pipeLog, combined>>
    /\ UNCHANGED <<sanVars, recVars, aiVars, mergeVars, extVars>>

\* lines 153-183: one iteration of the loop over cropped_image_paths
ProcessTable ==
    /\ pipePc = "loop"
    /\ pipeIdx < pipeN
    /\ \E opened \in BOOLEAN,
          cls \in PipeClsOutcomes, sch \in PipeSchOutcomes, ext \in PipeExtOutcomes :
        LET idx == pipeIdx + 1
            classify == NeedsClassification(first_transaction_table_found)
            is_txn == is_transaction_table(cls)
            detect == classify /\ is_txn.ret
            schema == IF detect THEN detect_schema_from_first_table(sch)
                      ELSE reordered_schema
            used == schema_used(schema)
            json_text == extract_table_with_schema(used, ext)
            events == (IF classify THEN <<ClsEvent(idx, is_txn.ret)>> ELSE <<>>)
                      \o (IF detect THEN <<DetEvent(idx, schema)>> ELSE <<>>)
                      \o <<ExtEvent(idx, used, ext.raised)>>
        IN  IF ~opened
            THEN \* line 161: Image.open fails, the handler of line 215 raises again
                 /\ pipePc' = "failed"
                 /\ UNCHANGED <<pipeIdx, first_transaction_table_found,
                                reordered_schema, extracted_json_texts, pipeLog>>
            ELSE /\ first_transaction_table_found' = (first_transaction_table_found \/ detect)
                 /\ reordered_schema' = schema
                 /\ pipeLog' = pipeLog \o events
                 /\ pipePc' = "loop"
                 /\ pipeIdx' = idx
                 /\ extracted_json_texts' = Append(extracted_json_texts, json_text.text)
    /\ UNCHANGED <<pipeN, combined>>
    /\ UNCHANGED <<sanVars, recVars, aiVars, mergeVars, extVars>>

\* lines 185-213: the texts of all tables are combined and the frame is
\* returned (the refinement branch imports bank_statement_modules.
\* camelot_refiner, which the repository does not have: the ImportError is
\* caught at line 208 and combined_df stays as it is)
Combine ==
    /\ pipePc = "loop"
    /\ pipeN > 0
    /\ pipeIdx = pipeN
    /\ combined' = combine_json_texts_to_dataframe(extracted_json_texts)
    /\ pipePc' = "done"
    /\ UNCHANGED <<pipeN, pipeIdx, first_transaction_table_found, reordered_schema,
                   extracted_json_texts, pipeLog>>
    /\ UNCHANGED <<sanVars, recVars, aiVars, mergeVars, extVars>>

PipeNext == NoTables \/ ProcessTable \/ Combine

SpecPipeline == PipeInit /\ [][PipeNext]_vars

ClsPos == {p \in 1..Len(pipeLog) : pipeLog[p].fn = "is_transaction_table"}

DetPos == {p \in 1..Len(pipeLog) : pipeLog[p].fn = "detect_schema_from_first_table"}

ExtPos == {p \in 1..Len(pipeLog) : pipeLog[p].fn = "extract_table_with_schema"}

\* C4: schema inference is called at most once, exactly on the first image
\* for which is_transaction_table returned true, and after that image
\* neither classification nor schema inference is called for a later image
C4_SchemaInferenceOnce ==
    /\ Cardinality(DetPos) <= 1
    /\ \A d \in DetPos :
          /\ d - 1 \in ClsPos
          /\ pipeLog[d - 1].yes
          /\ pipeLog[d - 1].img = pipeLog[d].img
          /\ \A q \in ClsPos : q < d - 1 => ~pipeLog[q].yes
    /\ \A c \in ClsPos :
          pipeLog[c].yes =>
              /\ c + 1 \in DetPos
              /\ \A p \in ClsPos \cup DetPos : pipeLog[p].img <= pipeLog[c].img

\* tables 1 was answered NO, table 2 YES, and table 3 was only extracted
C4_Witness ==
    /\ pipePc = "done"
    /\ pipeN = 3
    /\ \E c1, c2 \in ClsPos :
          /\ pipeLog[c1].img = 1 /\ ~pipeLog[c1].yes
          /\ pipeLog[c2].img = 2 /\ pipeLog[c2].yes
    /\ \E d \in DetPos : pipeLog[d].img = 2
    /\ \E e \in ExtPos : pipeLog[e].img = 3
    /\ \A p \in ClsPos \cup DetPos : pipeLog[p].img # 3

\* C5: once established, the schema is never reassigned: the extraction
\* call of the table it was inferred from and of every later table gets
\* exactly the value schema inference returned
C5_SchemaNeverReassigned ==
    \A d \in DetPos :
        /\ reordered_schema = pipeLog[d].text
        /\ \A e \in ExtPos : e > d => pipeLog[e].text = pipeLog[d].text

\* a reordered schema was inferred from table 1 and used for tables 1 to 3
C5_Witness ==
    /\ pipeIdx = 3
    /\ \E d \in DetPos :
          /\ pipeLog[d].img = 1
          /\ pipeLog[d].text = <<"[", SchemaReorderedObj, "]">>
          /\ Cardinality({e \in ExtPos : e > d /\ pipeLog[e].text = pipeLog[d].text}) = 3

\* C8: a failed extraction call yields a text that begins with the sentinel
\* and raises nothing; combine_json_texts_to_dataframe skips every table
\* whose text carries the sentinel without sanitizing it, such a table adds
\* no record, and every other table is still processed
IsSentinelText(t) == startswith(strip(t), ErrorSentinel)

C8_SentinelSkipped ==
    /\ \A e \in ExtPos :
          pipeLog[e].raised =>
              /\ pipeLog[e].img <= Len(extracted_json_texts)
              /\ IsSentinelText(extracted_json_texts[pipeLog[e].img])
              /\ SkipTable(extracted_json_texts[pipeLog[e].img])
              /\ utils_SkipTable(extracted_json_texts[pipeLog[e].img])
    /\ (pipePc = "done" /\ pipeN > 0) =>
          /\ Len(combined.contrib) = pipeN
          /\ combined.records = Concat(combined.contrib)
          /\ \A i \in 1..pipeN :
                IF IsSentinelText(extracted_json_texts[i])
                THEN i \notin combined.sanitized /\ combined.contrib[i] = <<>>
                ELSE i \in combined.sanitized
                     /\ combined.contrib[i] = CombineTable(extracted_json_texts[i]).recs

\* the extraction of table 2 failed; tables 1 and 3 still gave their records
C8_Witness ==
    /\ pipePc = "done"
    /\ pipeN = 3
    /\ \E e \in ExtPos : pipeLog[e].img = 2 /\ pipeLog[e].raised
    /\ combined.contrib[2] = <<>>
    /\ 2 \notin combined.sanitized
    /\ Len(combined.contrib[1]) = 2
    /\ Len(combined.contrib[3]) = 1
    /\ Len(combined.records) = 3

(***************************************************************************)
(* Specification of merge_overlapping_tables                               *)
(***************************************************************************)
\* the square boxes with corners on the grid 0..MergeMaxCoord
Boxes ==
    {<<x, y, x + w, y + w>> : x \in 0..(MergeMaxCoord - 1), y \in 0..(MergeMaxCoord - 1),
                              w \in 1..MergeMaxCoord}
    \cap ((0..MergeMaxCoord) \X (0..MergeMaxCoord) \X (0..MergeMaxCoord) \X (0..MergeMaxCoord))

Tables == [page : 1..MergeMaxPages, bbox : Boxes, txn : BOOLEAN]

Reorderings(list) ==
    {[i \in 1..Len(list) |-> list[f[i]]] :
        f \in {g \in [1..Len(list) -> 1..Len(list)] :
                  \A a, b \in 1..Len(list) : a # b => g[a] # g[b]}}

\* the merged boxes of a result, each with its page
BoxSet(tables) == {<<tables[i].page, tables[i].bbox>> : i \in 1..Len(tables)}

MergeInit ==
    /\ mIn \in SeqsUpTo(Tables, MergeMaxTables)
    /\ mOut = <<>>
    /\ mTwice = <<>>
    /\ mPermOut = <<>>
    /\ mPc = "start"
    /\ SanIdle
    /\ RecIdle
    /\ AiIdle
    /\ PipeIdle
    /\ ExtIdle

Merge ==
    /\ mPc = "start"
    /\ mOut' = merge_overlapping_tables(mIn)
    /\ mPc' = "merged"
    /\ UNCHANGED <<mIn, mTwice, mPermOut>>
    /\ UNCHANGED <<sanVars, recVars, aiVars, pipeVars, extVars>>

MergeAgain ==
    /\ mPc = "merged"
    /\ mTwice' = merge_overlapping_tables(mOut)
    /\ mPc' = "again"
    /\ UNCHANGED <<mIn, mOut, mPermOut>>
    /\ UNCHANGED <<sanVars, recVars, aiVars, pipeVars, extVars>>

MergePermuted ==
    /\ mPc = "merged"
    /\ \E perm \in Reorderings(mIn) : mPermOut' = merge_overlapping_tables(perm)
    /\ mPc' = "permuted"
    /\ UNCHANGED <<mIn, mOut, mTwice>>
    /\ UNCHANGED <<sanVars, recVars, aiVars, pipeVars, extVars>>

MergeNext == Merge \/ MergeAgain \/ MergePermuted

SpecMerge == MergeInit /\ [][MergeNext]_vars

\* C10: merging is idempotent and order-independent: merging the output
\* again yields the same set of boxes, and every permutation of the input
\* list yields the same set of merged boxes
C10_MergeIdempotentOrderIndependent ==
    /\ mPc = "again" => BoxSet(mTwice) = BoxSet(mOut)
    /\ mPc = "permuted" => BoxSet(mPermOut) = BoxSet(mOut)

(***************************************************************************)
(* Specification of one document run: main, process_pdf_extraction and     *)
(* extract_all_tables, with the files of temp/<pdf_stem>/                  *)
(***************************************************************************)
CamelotOutcomes == {"raised", "empty", "tables"}

\* handle_password_protected_pdf has saved the upload; Start Extraction is
\* clicked
LocInit ==
    /\ disk = {File("pdf", 0)}
    /\ keep_temp \in BOOLEAN
    /\ locRedaction = "none"
    /\ locExt = NoExtraction
    /\ runOutcome = "pending"
    /\ locPc = "start"
    /\ SanIdle
    /\ RecIdle
    /\ AiIdle
    /\ PipeIdle
    /\ MergeIdle
    /\ RqIdle
    /\ CombIdle
    /\ LateIdle

\* process_pdf_extraction lines 127-142: the call of extract_all_tables; an
\* exception of it reaches the handler of lines 215-218
ExtractAllTables ==
    /\ locPc = "start"
    /\ \E redaction \in {"modified", "unmodified", "raised"}, opened \in BOOLEAN,
          stream_tol \in CamelotOutcomes, stream_plain \in CamelotOutcomes,
          lattice \in CamelotOutcomes, merged_n \in 0..LocMaxTables,
          crop_ok \in 0..LocMaxTables :
        LET ext == extract_all_tables(redaction, opened, stream_tol, stream_plain,
                                      lattice, merged_n, crop_ok)
            files == disk \cup {File("crop", i) : i \in 1..ext.saved}
                          \cup (IF ext.redacted_left THEN {File("redacted", 0)} ELSE {})
        IN  /\ crop_ok <= merged_n
            /\ locRedaction' = redaction
            /\ locExt' = ext
            /\ IF ext.raised
               THEN /\ disk' = cleanup_temp_dir(files)
                    /\ runOutcome' = "failed"
                    /\ locPc' = "main"
               ELSE /\ disk' = files
                    /\ runOutcome' = "pending"
                    /\ locPc' = "tables"
    /\ UNCHANGED keep_temp
    /\ UNCHANGED <<sanVars, recVars, aiVars, pipeVars, mergeVars, rqVars, combVars, lateVars>>

\* process_pdf_extraction lines 144-218: no cropped image returns None, None;
\* otherwise the tables are processed and the frame returned, or an
\* exception reaches the handler, which cleans up and raises again
ProcessTables ==
    /\ locPc = "tables"
    /\ IF locExt.paths = <<>>
       THEN /\ runOutcome' = "no_tables"
            /\ disk' = disk
       ELSE \E ok \in BOOLEAN :
              /\ runOutcome' = IF ok THEN "success" ELSE "failed"
              /\ disk' = IF ok THEN disk ELSE cleanup_temp_dir(disk)
    /\ locPc' = "main"
    /\ UNCHANGED <<keep_temp, locRedaction, locExt>>
    /\ UNCHANGED <<sanVars, recVars, aiVars, pipeVars, mergeVars, rqVars, combVars, lateVars>>

\* main lines 256-271: after a return the folder is removed unless Keep Temp
\* Files is checked; after an exception only the error is shown
MainFinish ==
    /\ locPc = "main"
    /\ disk' = IF runOutcome # "failed" /\ ~keep_temp THEN cleanup_temp_dir(disk) ELSE disk
    /\ locPc' = "ended"
    /\ UNCHANGED <<keep_temp, locRedaction, locExt, runOutcome>>
    /\ UNCHANGED <<sanVars, recVars, aiVars, pipeVars, mergeVars, rqVars, combVars, lateVars>>

LocNext == ExtractAllTables \/ ProcessTables \/ MainFinish

SpecLocate == LocInit /\ [][LocNext]_vars

\* C11: when the library raises for one strategy the locator goes on to the
\* next one, and when every strategy that was tried raised, extract_all_tables
\* returns an empty list, reported as no tables, instead of raising
C11_AllStrategiesFailNoException ==
    (locExt.done /\ locExt.calls # <<>>) =>
        /\ locExt.calls[1].outcome = "raised" => Len(locExt.calls) >= 2
        /\ (\A i \in 1..Len(locExt.calls) : locExt.calls[i].outcome = "raised") =>
              /\ ~locExt.raised
              /\ locExt.paths = <<>>
              /\ runOutcome \in {"pending", "no_tables"}

\* C14: every cropped table image comes from the redacted copy; the original
\* is the source only when redaction reported that no page was modified
C14_CropsFromRedactedCopy ==
    \A i \in 1..Len(locExt.paths) :
        \/ locExt.paths[i] = "redacted"
        \/ locExt.paths[i] = "original" /\ locRedaction = "unmodified"

\* C15: after the run has ended, with success, without tables or with an
\* exception, no temporary artifact of the run is left on disk
C15_NoArtifactAfterRun ==
    locPc = "ended" => disk = {}

(***************************************************************************)
(* Specification of one AI request with its retries                        *)
(***************************************************************************)
Attempts == SelectSeq(rqLog, LAMBDA ev : ev.e = "attempt")

RqInit ==
    /\ rqKind \in {"groq", "gemini", "ai_core"}
    /\ rqLog = <<>>
    /\ rqResult = "pending"
    /\ SanIdle
    /\ RecIdle
    /\ AiIdle
    /\ PipeIdle
    /\ MergeIdle
    /\ LocIdle
    /\ CombIdle
    /\ LateIdle

\* one iteration of the for loop of _make_api_request
GroqAttempt ==
    /\ rqKind = "groq"
    /\ rqResult = "pending"
    /\ \E outcome \in {"ok", "invalid_200", "429", "429_bad_header", "401", "4xx",
                       "5xx", "timeout", "error"} :
        LET attempt == Len(Attempts)
            step == groq_iteration(attempt, outcome)
        IN  /\ rqLog' = rqLog \o Events(outcome, step)
            /\ rqResult' = ResultAfter(attempt, step)
    /\ UNCHANGED rqKind
    /\ UNCHANGED <<sanVars, recVars, aiVars, pipeVars, mergeVars, locVars, combVars, lateVars>>

\* one iteration of the for loop of extract_transactions_from_markdown
GeminiAttempt ==
    /\ rqKind = "gemini"
    /\ rqResult = "pending"
    /\ \E outcome \in {"ok", "no_candidates", "malformed_200", "non200", "timeout",
                       "error"} :
        LET attempt == Len(Attempts)
            step == gemini_iteration(attempt, outcome)
        IN  /\ rqLog' = rqLog \o Events(outcome, step)
            /\ rqResult' = ResultAfter(attempt, step)
    /\ UNCHANGED rqKind
    /\ UNCHANGED <<sanVars, recVars, aiVars, pipeVars, mergeVars, locVars, combVars, lateVars>>

\* is_transaction_table, detect_schema_from_first_table and
\* extract_table_with_schema: one call inside try/except, no loop; a failure
\* returns the fallback value (True, DEFAULT_SCHEMA, the sentinel text)
AiCoreCall ==
    /\ rqKind = "ai_core"
    /\ rqResult = "pending"
    /\ \E outcome \in {"ok", "timeout", "error"} :
        /\ rqLog' = Append(rqLog, [e |-> "attempt", outcome |-> outcome, delay |-> 0])
        /\ rqResult' = IF outcome = "ok" THEN "content" ELSE "fallback"
    /\ UNCHANGED rqKind
    /\ UNCHANGED <<sanVars, recVars, aiVars, pipeVars, mergeVars, locVars, combVars, lateVars>>

RqNext == GroqAttempt \/ GeminiAttempt \/ AiCoreCall

SpecRetry == RqInit /\ [][RqNext]_vars

\* C12: once the retry budget is exhausted, every attempt having timed out
\* or failed, the Groq markdown request and the Gemini extraction request
\* return a sentinel failure value and raise nothing
C12_SentinelAfterRetries ==
    (/\ rqKind \in {"groq", "gemini"}
     /\ rqResult # "pending"
     /\ Len(Attempts) = MAX_RETRIES
     /\ \A i \in 1..MAX_RETRIES : Attempts[i].outcome \notin {"ok", "no_candidates"})
        => rqResult = "None"

\* C13: every AI call is retried on failure up to MAX_RETRIES attempts with
\* a backoff wait between attempts and never makes more attempts: a call
\* whose first attempt timed out or failed makes a second one, and any two
\* successive attempts have a sleep between them
C13_BoundedRetryWithBackoff ==
    /\ Len(Attempts) <= MAX_RETRIES
    /\ \A i \in 1..(Len(rqLog) - 1) :
          rqLog[i].e = "attempt" => rqLog[i + 1].e = "sleep"
    /\ (rqResult # "pending" /\ rqLog[1].outcome \in {"timeout", "error"})
          => Len(Attempts) >= 2

(***************************************************************************)
(* Specification of combine_json_texts_to_dataframe on arbitrary texts     *)
(***************************************************************************)
CombMaxTables == 2

\* the raw texts of a table: arrays of up to two elements (records with
\* numeric, null or textual amounts, or a bare number), arrays with a
\* numeric string or without amounts, a fenced array with a trailing comma,
\* objects without the closing bracket, the sentinel, the empty text, prose
CombTexts ==
    LET elems == {ObjDebit, ObjNullDr, ObjTextDr, Number}
        arrays == {RenderArray(l) : l \in SeqsUpTo(elems, 2)}
    IN  arrays
        \cup {<<"[", ObjStrDr, "]">>,
              <<"[", ObjNoAmounts, ",", ObjDebit, "]">>,
              <<Fence, " ", "[", ObjDebit, ",", ObjStrDr, ",", "]", " ", Fence>>,
              <<"[", ObjDebit, ",", ObjTextDr>>,
              <<"[", ObjDebit, ",", "{", Member>>,
              <<ErrorSentinel, " ", Prose>>,
              <<>>,
              <<Prose>>}

CombInit ==
    /\ combTexts \in SeqsUpTo(CombTexts, CombMaxTables)
    /\ combOut = NoCombined
    /\ combUtils = NoUtilsCombined
    /\ combPc = "start"
    /\ SanIdle
    /\ RecIdle
    /\ AiIdle
    /\ PipeIdle
    /\ MergeIdle
    /\ LocIdle
    /\ RqIdle
    /\ LateIdle

CombineTexts ==
    /\ combPc = "start"
    /\ combOut' = combine_json_texts_to_dataframe(combTexts)
    /\ combUtils' = utils_combine_json_texts_to_dataframe(combTexts)
    /\ combPc' = "done"
    /\ UNCHANGED combTexts
    /\ UNCHANGED <<sanVars, recVars, aiVars, pipeVars, mergeVars, locVars, rqVars, lateVars>>

CombNext == CombineTexts

SpecCombine == CombInit /\ [][CombNext]_vars

\* the list json.loads gives for the sanitized text of a table (the empty
\* list when the text is skipped or does not parse to a list)
ParsedItems(json_text) ==
    LET parsed == json_loads(clean_and_fix_json(json_text))
    IN  IF ~SkipTable(json_text) /\ isinstance_list(parsed) THEN parsed.items ELSE <<>>

\* C16: for any sequence of per-table raw texts the result is the
\* concatenation, in table order, of the expanded records of the tables
\* that parsed: a table that fails (sentinel, empty, unparseable, a record
\* that cannot be expanded) adds no record, the other tables add exactly
\* what they add when they are combined alone
C16_ConcatenationOfParsedTables ==
    combPc = "done" =>
        /\ Len(combOut.contrib) = Len(combTexts)
        /\ combOut.records = Concat(combOut.contrib)
        /\ \A i \in 1..Len(combTexts) :
              /\ combOut.contrib[i] =
                     combine_json_texts_to_dataframe(<<combTexts[i]>>).records
              /\ combOut.contrib[i] =
                     IF \/ SkipTable(combTexts[i])
                        \/ expand_raises(ParsedItems(combTexts[i]))
                     THEN <<>>
                     ELSE expand_compact_json(ParsedItems(combTexts[i]))

\* the first table holds a record that cannot be expanded and adds nothing;
\* the second table still adds its two records
C16_Witness ==
    /\ combPc = "done"
    /\ Len(combTexts) = 2
    /\ ParsedItems(combTexts[1]) # <<>>
    /\ \A j \in 1..Len(ParsedItems(combTexts[1])) : ParsedItems(combTexts[1])[j].t = "dict"
    /\ expand_raises(ParsedItems(combTexts[1]))
    /\ combOut.contrib[1] = <<>>
    /\ Len(combOut.contrib[2]) = 2
    /\ combOut.records = combOut.contrib[2]

\* C17: expand_compact_json has no failure mode: an amount that is missing,
\* null or not parseable as a number becomes 0.0, type W gives Withdrawal
\* and anything else Deposit, and there is one display record per compact
\* record, in order; stated for file_utils and for the legacy utils
C17_ExpandNeverFails ==
    combPc = "done" =>
        \A i \in 1..Len(combTexts) :
            LET items == ParsedItems(combTexts[i])
                Zero(j, k) == \/ k \notin DOMAIN items[j].rec
                              \/ FloatRaises(items[j].rec[k])
            IN  (\A j \in 1..Len(items) : items[j].t = "dict") =>
                    /\ ~expand_raises(items)
                    /\ ~utils_expand_raises(items)
                    /\ Len(expand_compact_json(items)) = Len(items)
                    /\ combOut.contrib[i] = expand_compact_json(items)
                    /\ \A j \in 1..Len(items) :
                          /\ Zero(j, "dr") => expand_compact_json(items)[j].withdrawal_dr = 0
                          /\ Zero(j, "cr") => expand_compact_json(items)[j].deposit_cr = 0
                          /\ Zero(j, "bal") => expand_compact_json(items)[j].balance = 0
                          /\ expand_compact_json(items)[j].transaction_type =
                                IF Get(items[j].rec, "type", "") = "W"
                                THEN "Withdrawal" ELSE "Deposit"

\* C18: the schema that schema inference returns carries both parts of the
\* answer: when the model answered with a valid reordered array and a
\* Date_Order declaration, the declaration is in the returned schema value
C18_SchemaCarriesDateOrder ==
    (/\ aiPc = "detected"
     /\ ~NoUsableArray(aiResp)
     /\ \E i \in 1..Len(aiResp.text) : aiResp.text[i] = DateOrderDesc)
        => \E i \in 1..Len(aiSchema) : aiSchema[i] = DateOrderDesc

\* C20: an explicit NO skips schema inference for that image but not its
\* extraction: every image gets exactly one extraction call, in list order,
\* with the schema established before it if there is one and the default
\* schema otherwise, and there are as many raw texts as images
C20_NoSkipsInferenceNotExtraction ==
    /\ Len(extracted_json_texts) = pipeIdx
    /\ Cardinality(ExtPos) = pipeIdx
    /\ \A e \in ExtPos :
          /\ Cardinality({q \in ExtPos : q <= e}) = pipeLog[e].img
          /\ pipeLog[e].text =
                IF \E d \in DetPos : d < e
                THEN pipeLog[CHOOSE d \in DetPos : d < e].text
                ELSE DEFAULT_SCHEMA
    /\ \A c \in ClsPos :
          ~pipeLog[c].yes =>
              /\ c + 1 \in ExtPos
              /\ pipeLog[c + 1].img = pipeLog[c].img
              /\ pipeLog[c + 1].text = DEFAULT_SCHEMA
    /\ (pipePc = "done" /\ pipeN > 0) => Len(extracted_json_texts) = pipeN

\* tables 1 and 2 were answered NO and extracted with the default schema,
\* table 3 was answered YES; there are three raw texts
C20_Witness ==
    /\ pipePc = "done"
    /\ pipeN = 3
    /\ Len(extracted_json_texts) = 3
    /\ \E c \in ClsPos :
          /\ pipeLog[c].img = 2
          /\ ~pipeLog[c].yes
          /\ pipeLog[c + 1].fn = "extract_table_with_schema"
          /\ pipeLog[c + 1].text = DEFAULT_SCHEMA
    /\ \E d \in DetPos : pipeLog[d].img = 3

\* C19: any two retained candidates of a page whose own boxes overlap by
\* more than 0.3 of the smaller area end up in the same merged output, and
\* the box of an output is the union of the boxes absorbed into it
C19_OverlappingPairsShareOutput ==
    mPc = "merged" =>
        \A page_num \in 1..MergeMaxPages :
            LET page_table_list == SelectSeq(mIn, LAMBDA t : t.txn /\ t.page = page_num)
                merged == SelectSeq(mOut, LAMBDA t : t.page = page_num)
                lists == OverlappingLists(page_table_list, 1, {})
            IN  /\ Len(merged) = Len(lists)
                /\ \A g \in 1..Len(lists) :
                      /\ \A k \in 1..4 : \E i \in lists[g] :
                            merged[g].bbox[k] = page_table_list[i].bbox[k]
                      /\ \A i \in lists[g] :
                            merge_boxes(merged[g].bbox, page_table_list[i].bbox) = merged[g].bbox
                /\ \A i, j \in 1..Len(page_table_list) :
                      (i < j /\ boxes_overlap(page_table_list[i].bbox, page_table_list[j].bbox))
                          => \E g \in 1..Len(lists) : {i, j} \subseteq lists[g]

\* C21: the strategies are tried in the order stream with tolerances, plain
\* stream, lattice; the plain stream call is made if and only if the first
\* call returned no table, and the lattice call is made when both stream
\* calls returned no table
C21_StrategiesInOrderWhileEmpty ==
    (locExt.done /\ locExt.calls # <<>>) =>
        /\ \A i \in 1..Len(locExt.calls) :
              locExt.calls[i].flavor = <<"stream_tol", "stream", "lattice">>[i]
              \/ (i = 2 /\ locExt.calls[i].flavor = "lattice")
        /\ (\E i \in 1..Len(locExt.calls) : locExt.calls[i].flavor = "stream")
              <=> locExt.calls[1].outcome = "empty"
        /\ (\A i \in 1..Len(locExt.calls) :
               locExt.calls[i].flavor \in {"stream_tol", "stream"}
               => locExt.calls[i].outcome = "empty")
              => \E i \in 1..Len(locExt.calls) : locExt.calls[i].flavor = "lattice"

\* C22: in any result of the reconciliation step record i differs from
\* input record i at most in dr and cr: date, description, balance and type
\* are those of the input, and no record is removed, added or reordered
C22_OnlyDebitCreditChange ==
    recPc = "done" =>
        /\ Len(recSimple.ret) = Len(recRecords)
        /\ \A i \in 1..Len(recSimple.ret) :
              /\ recSimple.ret[i].t = "dict"
              /\ \A k \in {"dt", "desc", "bal", "type"} :
                    Get(recSimple.ret[i].rec, k, PyNone) = Get(recRecords[i].rec, k, PyNone)

(***************************************************************************)
(* Specification of PDFProcessor.redact_pdf                                *)
(***************************************************************************)
RedMaxPages == 2

\* the y0 of the text block that holds the header line
RedBlockYs == {0, 2, 3, 9, 21, 40}

RedPageSet ==
    {[header |-> FALSE, y0 |-> 0]} \cup {[header |-> TRUE, y0 |-> y] : y \in RedBlockYs}

RedInit ==
    /\ redPages \in SeqsUpTo(RedPageSet, RedMaxPages)
    /\ redIdx = 0
    /\ modified = FALSE
    /\ redRects = <<>>
    /\ redSaved = FALSE
    /\ redPc = "loop"
    /\ BaseIdle
    /\ OvIdle
    /\ PtIdle
    /\ CcIdle
    /\ PfIdle
    /\ HdIdle

\* one iteration of "for page in doc"
RedactPage ==
    /\ redPc = "loop"
    /\ redIdx < Len(redPages)
    /\ LET header_y == detect_header_y(redPages[redIdx + 1])
       IN  IF HeaderYTruthy(header_y)
           THEN /\ redRects' = Append(redRects,
                                      [page |-> redIdx + 1,
                                       height |-> Max(0, header_y.y - OFFSET)])
                /\ modified' = TRUE
           ELSE UNCHANGED <<redRects, modified>>
    /\ redIdx' = redIdx + 1
    /\ UNCHANGED <<redPages, redSaved, redPc>>
    /\ UNCHANGED redRest

\* lines 121-124: save if modified, close, return modified
RedactFinish ==
    /\ redPc = "loop"
    /\ redIdx = Len(redPages)
    /\ redSaved' = modified
    /\ redPc' = "done"
    /\ UNCHANGED <<redPages, redIdx, modified, redRects>>
    /\ UNCHANGED redRest

RedNext == RedactPage \/ RedactFinish

SpecRedact == RedInit /\ [][RedNext]_vars

\* C23: redact_pdf saves the output and returns true if and only if
\* detect_header_y found a boundary on at least one page; every page with a
\* boundary, one at vertical position 0 included, counts as modified
C23_ModifiedIffBoundaryFound ==
    redPc = "done" =>
        /\ redSaved = modified
        /\ modified <=> \E i \in 1..Len(redPages) : detect_header_y(redPages[i]).found
        /\ \A i \in 1..Len(redPages) :
              detect_header_y(redPages[i]).found
                  => \E r \in 1..Len(redRects) : redRects[r].page = i

\* C24: the schema that schema inference hands to the extraction calls is a
\* list of exactly the 7 canonical fields dt, desc, ref, dr, cr, bal, type,
\* each once, in the default order or reordered; an answer whose bracketed
\* array lacks a field, repeats one or holds anything else is never used
C24_SchemaHasTheSevenFields ==
    aiPc = "detected" =>
        LET v == json_loads(aiSchema)
        IN  /\ isinstance_list(v)
            /\ Len(v.items) = 1
            /\ v.items[1].t = "dict"
            /\ DOMAIN v.items[1].rec = {"dt", "desc", "ref", "dr", "cr", "bal", "type"}

\* C25: the second pass of utils.combine_json_texts_to_dataframe realigns
\* without drift: the output holds one expanded record for every transaction
\* accumulated in the first pass, and the slice taken for a table starts at
\* the first record that this table contributed
C25_SecondPassWithoutDrift ==
    combPc = "done" =>
        /\ Len(combUtils.expanded_transactions) = Len(combUtils.all_transactions)
        /\ \A s \in 1..Len(combUtils.slices) :
              combUtils.slices[s].start =
                  Len(Concat(SubSeq(combUtils.contrib, 1, combUtils.slices[s].table - 1)))

(***************************************************************************)
(* Specification of boxes_overlap on two arbitrary boxes                   *)
(***************************************************************************)
OvMaxCoord == 2

\* every (x1, y1, x2, y2) on the grid 0..OvMaxCoord: proper, degenerate
\* (x1 = x2 or y1 = y2) and inverted (x1 > x2 or y1 > y2) boxes
OvBoxes == (0..OvMaxCoord) \X (0..OvMaxCoord) \X (0..OvMaxCoord) \X (0..OvMaxCoord)

OvInit ==
    /\ ovPair \in OvBoxes \X OvBoxes
    /\ ovCall = NoOverlapCall
    /\ ovPc = "start"
    /\ BaseIdle
    /\ RedIdle
    /\ PtIdle
    /\ CcIdle
    /\ PfIdle
    /\ HdIdle

BoxesOverlap ==
    /\ ovPc = "start"
    /\ ovCall' = boxes_overlap_call(ovPair[1], ovPair[2])
    /\ ovPc' = "done"
    /\ UNCHANGED ovPair
    /\ UNCHANGED ovRest

OvNext == BoxesOverlap

SpecOverlap == OvInit /\ [][OvNext]_vars

\* C27: boxes_overlap never divides by zero: for any two boxes, degenerate
\* and inverted ones included, the ratio is computed only when both boxes
\* have strictly positive area, and an empty intersection returns false
\* before any division
C27_NoDivisionByZero ==
    ovPc = "done" =>
        /\ ~ovCall.raised
        /\ ovCall.divided => Area(ovPair[1]) > 0 /\ Area(ovPair[2]) > 0
        /\ ~ovCall.divided => ~ovCall.result
        /\ ovCall.result = boxes_overlap(ovPair[1], ovPair[2])

\* a zero-width box lying inside a proper box: inter_x1 = inter_x2, the call
\* returns false and nothing is divided
C27_Witness ==
    /\ ovPc = "done"
    /\ Area(ovPair[1]) = 0
    /\ Area(ovPair[2]) > 0
    /\ ovPair[2][1] <= ovPair[1][1] /\ ovPair[1][3] <= ovPair[2][3]
    /\ ovPair[2][2] <= ovPair[1][2] /\ ovPair[1][4] <= ovPair[2][4]
    /\ ovPair[1][2] < ovPair[1][4]
    /\ ~ovCall.divided
    /\ ~ovCall.result

(***************************************************************************)
(* Specification of merge_overlapping_tables with the overlapping lists    *)
(***************************************************************************)
PtMaxTables == 3

PtCoords == 0..2

PtPages == {1, 2}

\* the proper rectangles with corners in PtCoords
PtBoxes == {b \in PtCoords \X PtCoords \X PtCoords \X PtCoords : b[1] < b[3] /\ b[2] < b[4]}

\* tables that pass is_transaction_table with any box, and one table per page
\* that does not
PtTables ==
    [page : PtPages, bbox : PtBoxes, txn : {TRUE}]
    \cup [page : PtPages, bbox : {<<0, 0, 1, 1>>}, txn : {FALSE}]

\* bbox holds inner: inner lies inside bbox
BoxContains(bbox, inner) ==
    /\ bbox[1] <= inner[1] /\ bbox[2] <= inner[2]
    /\ inner[3] <= bbox[3] /\ inner[4] <= bbox[4]

PtInit ==
    /\ ptIn \in SeqsUpTo(PtTables, PtMaxTables)
    /\ ptOut = <<>>
    /\ ptGroups = <<>>
    /\ ptPc = "start"
    /\ BaseIdle
    /\ RedIdle
    /\ OvIdle
    /\ CcIdle
    /\ PfIdle
    /\ HdIdle

MergeOverlappingTables ==
    /\ ptPc = "start"
    /\ ptOut' = merge_overlapping_tables(ptIn)
    /\ ptGroups' = merge_overlapping_lists(ptIn)
    /\ ptPc' = "done"
    /\ UNCHANGED ptIn
    /\ UNCHANGED ptRest

PtNext == MergeOverlappingTables

SpecPartition == PtInit /\ [][PtNext]_vars

\* C26: merge_overlapping_tables partitions the retained tables of each
\* page: every table that passes is_transaction_table is in the overlapping
\* list of exactly one merged table, which is of its own page and whose box
\* contains the table's box; a table that does not pass is in none; no
\* merged table has more than one page; and there are at most as many merged
\* tables as retained tables
C26_PartitionOfRetainedTables ==
    ptPc = "done" =>
        /\ Len(ptGroups) = Len(ptOut)
        /\ \A i \in 1..Len(ptIn) :
              LET outs == {o \in 1..Len(ptOut) : i \in ptGroups[o]}
              IN  IF ptIn[i].txn
                  THEN /\ Cardinality(outs) = 1
                       /\ \A o \in outs : /\ ptOut[o].page = ptIn[i].page
                                          /\ BoxContains(ptOut[o].bbox, ptIn[i].bbox)
                  ELSE outs = {}
        /\ \A o \in 1..Len(ptOut) : ptGroups[o] # {}
        /\ Len(ptOut) <= Cardinality({i \in 1..Len(ptIn) : ptIn[i].txn})

\* a merged table made of two tables and larger than either of them, next
\* to a second merged table
C26_Witness ==
    /\ ptPc = "done"
    /\ Len(ptOut) = 2
    /\ \E o \in 1..Len(ptOut) :
          /\ Cardinality(ptGroups[o]) = 2
          /\ \A i \in ptGroups[o] : ptOut[o].bbox # ptIn[i].bbox

(***************************************************************************)
(* The credit-card page loop: MarkdownProcessor.process_all_images and     *)
(* DynamicMarkdownProcessor.process_all_images_with_preview                *)
(***************************************************************************)
\* str.lower() on the values a marker line carries
LowerValue(v) == IF v = "True" THEN "true" ELSE IF v = "False" THEN "false" ELSE v

\* _detect_transactions_in_markdown without the limit of 15 lines
detect_transactions_in_any_line(markdown_content) ==
    /\ markdown_content.marker # "none"
    /\ LowerValue(markdown_content.marker) = "true"

\* _detect_transactions_in_markdown(markdown_content) on a non-blank response
\* whose first HAS_TRANSACTIONS: line comes after lead other lines and carries
\* the value marker ("none": no such line): the first 15 lines are searched
detect_transactions_in_markdown(markdown_content) ==
    IF markdown_content.marker = "none" \/ markdown_content.lead >= 15 THEN FALSE
    ELSE LowerValue(markdown_content.marker) = "true"

\* convert_images_to_markdown([image_path]): it raises, or returns
\* (None, False) (no valid image, or _make_api_request gave up), or returns
\* the response and its detection result
convert_images_to_markdown(page) ==
    IF page.kind = "raises" THEN [raised |-> TRUE, result |-> FALSE, has_transactions |-> FALSE]
    ELSE IF page.kind = "none" THEN [raised |-> FALSE, result |-> FALSE, has_transactions |-> FALSE]
    ELSE [raised |-> FALSE, result |-> TRUE,
          has_transactions |-> detect_transactions_in_markdown(page)]

CcMaxPages == 3

CcLeads == {0, 14, 15}

CcMarkers == {"True", "true", "False", "none"}

\* a page: a missing image file, a call that raises, a call without a
\* response, or a response
CcPages ==
    [exists : {FALSE}, kind : {"none"}, lead : {0}, marker : {"none"}]
    \cup [exists : {TRUE}, kind : {"raises", "none"}, lead : {0}, marker : {"none"}]
    \cup [exists : {TRUE}, kind : {"text"}, lead : CcLeads, marker : CcMarkers]

CcInit ==
    /\ ccVariant \in {"process_all_images", "process_all_images_with_preview"}
    /\ image_paths \in SeqsUpTo(CcPages, CcMaxPages)
    /\ ccIdx = 0
    /\ ccSent = <<>>
    /\ all_markdown = <<>>
    /\ ccResult = NoPagesResult
    /\ ccPc = "loop"
    /\ BaseIdle
    /\ RedIdle
    /\ OvIdle
    /\ PtIdle
    /\ PfIdle
    /\ HdIdle

\* one iteration of "for i, image_path in enumerate(image_paths)", the same
\* in both methods (the session that process_all_images opens around the
\* loop is taken to open and close without raising)
ProcessImage ==
    /\ ccPc = "loop"
    /\ ccIdx < Len(image_paths)
    /\ LET i == ccIdx + 1
           call == convert_images_to_markdown(image_paths[i])
       IN  IF ~image_paths[i].exists
           THEN /\ ccIdx' = i
                /\ UNCHANGED <<ccSent, all_markdown, ccPc>>
           ELSE /\ ccSent' = Append(ccSent, i)
                /\ ccIdx' = i
                /\ all_markdown' = IF ~call.raised /\ call.result
                                   THEN Append(all_markdown, i)
                                   ELSE all_markdown
                /\ ccPc' = IF ~call.raised /\ call.result /\ call.has_transactions
                           THEN "loop"
                           ELSE "after"
    /\ UNCHANGED <<ccVariant, image_paths, ccResult>>
    /\ UNCHANGED ccRest

\* after the loop: None without markdown, else the markdown joined with
\* the separator (every part is a non-blank response, so the joined text
\* of process_all_images is never blank)
ReturnCombined ==
    /\ \/ ccPc = "loop" /\ ccIdx = Len(image_paths)
       \/ ccPc = "after"
    /\ ccResult' = [returned |-> TRUE, none |-> all_markdown = <<>>, parts |-> all_markdown]
    /\ ccPc' = "done"
    /\ UNCHANGED <<ccVariant, image_paths, ccIdx, ccSent, all_markdown>>
    /\ UNCHANGED ccRest

CcNext == ProcessImage \/ ReturnCombined

SpecPages == CcInit /\ [][CcNext]_vars

\* a response marked HAS_TRANSACTIONS: True (in any letter case) within
\* its first 15 lines
MarkedTrue(page) ==
    /\ page.kind = "text"
    /\ page.marker \in {"True", "true"}
    /\ page.lead + 1 <= 15

\* the first existing page that raises, has no response or is not marked;
\* Len + 1 if there is none
FirstStop(pages) ==
    LET stops == {i \in 1..Len(pages) : pages[i].exists /\ ~MarkedTrue(pages[i])}
    IN  IF stops = {} THEN Len(pages) + 1
        ELSE CHOOSE i \in stops : \A j \in stops : i <= j

PfEnvs ==
    [write : {"ok", "raises"},
     redact_pdf : {"True", "False", "raises"},
     extract_text_from_pdf : {"text", "blank", "empty", "raises"},
     convert_pdf_to_images : {"paths", "empty", "raises"},
     process_all_images_with_preview : {"content", "None", "raises"},
     extract_transactions_from_markdown : {"result", "None", "raises"},
     process_gemini_result : {"transactions", "empty", "None", "raises"},
     enhance : {"ok", "raises"},
     redacted_images : {"ok", "raises"}]

\* an early return that leaves processing_started as it is
early_return_keeps_started(st) == st

\* "state.processing_started = False" before every "return False": the
\* early returns and the handler of "except Exception" assign the same
early_return(st) == [st EXCEPT !.processing_started = FALSE]

PfInit ==
    /\ state = ProcessingState
    /\ pfEnv \in PfEnvs
    /\ pfReturned = "pending"
    /\ pfPc = "main"
    /\ BaseIdle
    /\ RedIdle
    /\ OvIdle
    /\ PtIdle
    /\ CcIdle
    /\ HdIdle

\* main: the click on Extract Transactions, offered while the state is
\* neither complete nor started
ClickExtract ==
    /\ pfPc = "main"
    /\ ~state.processing_complete /\ ~state.processing_started
    /\ state' = [state EXCEPT !.processing_started = TRUE]
    /\ pfPc' = "write"
    /\ UNCHANGED <<pfEnv, pfReturned>>
    /\ UNCHANGED pfRest

\* a stage either lets the run go on to the next one or returns False (its
\* own test failed, or it raised and the handler of lines 439-443 ran)
PfGoOnOrReturn(goes_on, next) ==
    IF goes_on
    THEN /\ pfPc' = next
         /\ UNCHANGED <<state, pfReturned>>
    ELSE /\ state' = early_return(state)
         /\ pfReturned' = "False"
         /\ pfPc' = "returned"

\* lines 306-315: the temporary directory, input.pdf and the progress widgets
WriteInput ==
    /\ pfPc = "write"
    /\ PfGoOnOrReturn(pfEnv.write = "ok", "redact")
    /\ UNCHANGED pfEnv
    /\ UNCHANGED pfRest

\* lines 320-328
RedactPdf ==
    /\ pfPc = "redact"
    /\ PfGoOnOrReturn(pfEnv.redact_pdf = "True", "text")
    /\ UNCHANGED pfEnv
    /\ UNCHANGED pfRest

\* lines 333-338
ExtractText ==
    /\ pfPc = "text"
    /\ PfGoOnOrReturn(pfEnv.extract_text_from_pdf = "text", "images")
    /\ UNCHANGED pfEnv
    /\ UNCHANGED pfRest

\* lines 343-353
ConvertImages ==
    /\ pfPc = "images"
    /\ PfGoOnOrReturn(pfEnv.convert_pdf_to_images = "paths", "markdown")
    /\ UNCHANGED pfEnv
    /\ UNCHANGED pfRest

\* lines 358-364
ConvertToMarkdown ==
    /\ pfPc = "markdown"
    /\ PfGoOnOrReturn(pfEnv.process_all_images_with_preview = "content", "gemini")
    /\ UNCHANGED pfEnv
    /\ UNCHANGED pfRest

\* lines 369-377
ExtractWithGemini ==
    /\ pfPc = "gemini"
    /\ PfGoOnOrReturn(pfEnv.extract_transactions_from_markdown = "result", "store")
    /\ UNCHANGED pfEnv
    /\ UNCHANGED pfRest

\* lines 379-436: process_gemini_result, and with transactions the
\* enhancement, the dataframe, the page images (their own handler) and the
\* two flags; without transactions, or when a call raises, False (the
\* progress and message widgets of lines 430-434 are taken not to raise)
StoreAndComplete ==
    /\ pfPc = "store"
    /\ IF pfEnv.process_gemini_result = "transactions" /\ pfEnv.enhance = "ok"
       THEN /\ state' = [state EXCEPT
                            !.df = "frame",
                            !.uploaded_file_name = "name",
                            !.redacted_images =
                                IF pfEnv.redacted_images = "ok" THEN "images" ELSE @,
                            !.processing_complete = TRUE,
                            !.processing_started = FALSE]
            /\ pfReturned' = "True"
       ELSE /\ state' = early_return(state)
            /\ pfReturned' = "False"
    /\ pfPc' = "returned"
    /\ UNCHANGED pfEnv
    /\ UNCHANGED pfRest

PfNext ==
    \/ ClickExtract
    \/ WriteInput
    \/ RedactPdf
    \/ ExtractText
    \/ ConvertImages
    \/ ConvertToMarkdown
    \/ ExtractWithGemini
    \/ StoreAndComplete

SpecProcess == PfInit /\ [][PfNext]_vars

Column(i) == [table |-> 0, col |-> i]

\* the headers extract_headers_from_table reads from the header row of
\* table table_num: one name per cell, told apart by table and column
HeaderCells(table_num, table) ==
    [c \in 1..table.ncols |-> [table |-> table_num, col |-> c - 1]]

\* lines 264-278: the keys of one transaction of a table with ncols columns
TransactionKeys(extracted_headers, ncols) ==
    [c \in 1..ncols |->
        IF c - 1 < Len(extracted_headers) THEN extracted_headers[c] ELSE Column(c - 1)]

\* process_table that reads the headers of every table with a header row
process_table_reading_every_header(self, table, table_num) ==
    IF ~table.usable THEN self
    ELSE
    LET with_headers ==
            IF table.header >= 0
            THEN [self EXCEPT !.extracted_headers = HeaderCells(table_num, table),
                              !.header_row_index = table.header,
                              !.first_table_processed = TRUE]
            ELSE IF ~self.first_table_processed
            THEN [self EXCEPT !.extracted_headers = [c \in 1..table.ncols |-> Column(c - 1)],
                              !.first_table_processed = TRUE]
            ELSE self
    IN  IF ~table.dates THEN with_headers
        ELSE [with_headers EXCEPT !.all_transactions =
                 Append(@, [table |-> table_num,
                            keys |-> TransactionKeys(with_headers.extracted_headers,
                                                     table.ncols)])]

\* process_table(table, table_num) on a table that is usable (not empty
\* after cleaning, passes is_transaction_table) or not, has ncols columns, has
\* its first header row at index header among its first five rows (-1: none)
\* and has a date column with a transaction row or not
process_table(self, table, table_num) ==
    IF ~table.usable THEN self
    ELSE
    LET with_headers ==
            IF ~self.first_table_processed
            THEN IF table.header >= 0
                 THEN [self EXCEPT !.extracted_headers = HeaderCells(table_num, table),
                                   !.header_row_index = table.header,
                                   !.first_table_processed = TRUE]
                 ELSE [self EXCEPT !.extracted_headers =
                                       [c \in 1..table.ncols |-> Column(c - 1)],
                                   !.first_table_processed = TRUE]
            ELSE self
    IN  IF ~table.dates THEN with_headers
        ELSE [with_headers EXCEPT !.all_transactions =
                 Append(@, [table |-> table_num,
                            keys |-> TransactionKeys(with_headers.extracted_headers,
                                                     table.ncols)])]

HdMaxTables == 3

HdCols == {2, 3}

\* one table that is not usable, and the usable tables
HdTableSet ==
    [usable : {FALSE}, ncols : {2}, header : {-1}, dates : {FALSE}]
    \cup [usable : {TRUE}, ncols : HdCols, header : {-1, 0, 1}, dates : BOOLEAN]

HdInit ==
    /\ hdTables \in SeqsUpTo(HdTableSet, HdMaxTables)
    /\ hdIdx = 0
    /\ extractor = BankStatementExtractor
    /\ hdPc = "loop"
    /\ BaseIdle
    /\ RedIdle
    /\ OvIdle
    /\ PtIdle
    /\ CcIdle
    /\ PfIdle

\* one iteration of "for i, table in enumerate(tables)" of
\* extract_transactions
ProcessReferenceTable ==
    /\ hdPc = "loop"
    /\ hdIdx < Len(hdTables)
    /\ extractor' = process_table(extractor, hdTables[hdIdx + 1], hdIdx + 1)
    /\ hdIdx' = hdIdx + 1
    /\ UNCHANGED <<hdTables, hdPc>>
    /\ UNCHANGED hdRest

ExtractTransactionsDone ==
    /\ hdPc = "loop"
    /\ hdIdx = Len(hdTables)
    /\ hdPc' = "done"
    /\ UNCHANGED <<hdTables, hdIdx, extractor>>
    /\ UNCHANGED hdRest

HdNext == ProcessReferenceTable \/ ExtractTransactionsDone

SpecHeaders == HdInit /\ [][HdNext]_vars

\* the first usable table among the first n; 0 if there is none
FirstUsable(tables, n) ==
    LET usable == {i \in 1..n : tables[i].usable}
    IN  IF usable = {} THEN 0 ELSE CHOOSE i \in usable : \A j \in usable : i <= j

\* the headers the first usable table fixes: its header row, or Column_i
FixedHeaders(tables, n) ==
    LET f == FirstUsable(tables, n)
    IN  IF f = 0 THEN <<>>
        ELSE IF tables[f].header >= 0 THEN HeaderCells(f, tables[f])
        ELSE [c \in 1..tables[f].ncols |-> Column(c - 1)]

\* the flag is set exactly from the first usable table on, and from then on
\* the headers are the ones that table fixed
HeadersFixedOnce ==
    /\ extractor.first_table_processed <=> FirstUsable(hdTables, hdIdx) # 0
    /\ extractor.extracted_headers = FixedHeaders(hdTables, hdIdx)

\* C30: the headers are fixed by the first table that passes
\* is_transaction_table and never change; first_table_processed goes from
\* false to true once; every row of a later table is keyed by those same
\* headers
C30_RowsKeyedByFirstHeaders ==
    /\ HeadersFixedOnce
    /\ \A t \in 1..Len(extractor.all_transactions) :
          \A c \in 1..Len(extractor.all_transactions[t].keys) :
              \E h \in 1..Len(extractor.extracted_headers) :
                  extractor.all_transactions[t].keys[c] = extractor.extracted_headers[h]

\* C30 as amended: the same, and every row of a later table is keyed by
\* those same headers for the columns they cover and by Column_i for a
\* column beyond them, also when the later table has its own header row
C30_RowsKeyedByFirstHeadersOrColumn ==
    /\ HeadersFixedOnce
    /\ \A t \in 1..Len(extractor.all_transactions) :
          LET keys == extractor.all_transactions[t].keys
              table == hdTables[extractor.all_transactions[t].table]
          IN  /\ Len(keys) = table.ncols
              /\ \A c \in 1..Len(keys) :
                    keys[c] = IF c <= Len(extractor.extracted_headers)
                              THEN extractor.extracted_headers[c]
                              ELSE Column(c - 1)

\* a first table with a header row and two columns, then a table with its
\* own header row and three columns: the rows of both are recorded
C30_Witness ==
    /\ hdPc = "done"
    /\ Len(hdTables) = 2
    /\ hdTables[1].usable /\ hdTables[1].header = 0 /\ hdTables[1].ncols = 2
    /\ hdTables[2].usable /\ hdTables[2].header = 0 /\ hdTables[2].ncols = 3
    /\ Len(extractor.all_transactions) = 2
    /\ extractor.all_transactions[2].keys =
          <<[table |-> 1, col |-> 0], [table |-> 1, col |-> 1], Column(2)>>

====
